---- MODULE Spec2Model ----
(***************************************************************************)
(* Model of the Verilog patch template library: the five repair passes     *)
(* (assign, case, if-else, always, generate), and the orchestrator         *)
(* SyntaxErrorPatcher with its final cleanup.                              *)
(*                                                                         *)
(* A source line is a TLA+ string; a line sequence is a sequence of        *)
(* strings.  Python's string methods and the regular expressions of the    *)
(* source are modelled character by character: strings are read with Len   *)
(* and SubSeq and built with \o.  List indices are 0-based as in the       *)
(* source (At(l, i) is l[i]).                                              *)
(***************************************************************************)
EXTENDS Integers, Sequences, FiniteSets, TLC

(***************************************************************************)
(* Python str operations.                                                  *)
(***************************************************************************)
\* (CHOOSE val \in {f(v) : v \in {e}} : TRUE) is f(e), with e evaluated one
\* time however often f uses its argument; \E v \in {e} : P(v) does the same
\* for a predicate.
Ch(s, k) == SubSeq(s, k, k)

\* s[a-1:b] with Python's clipping of out-of-range bounds
Slice(s, a, b) ==
  (CHOOSE val \in {IF lo > hi THEN "" ELSE SubSeq(v, lo, hi) :
          v \in {s},
          lo \in {IF a < 1 THEN 1 ELSE a},
          hi \in {IF b > Len(s) THEN Len(s) ELSE b}} : TRUE)

At(l, idx) == l[idx + 1]

Whitespace == {" ", "\t", "\n"}

WordChars ==
  {"a","b","c","d","e","f","g","h","i","j","k","l","m","n","o","p","q","r",
   "s","t","u","v","w","x","y","z","A","B","C","D","E","F","G","H","I","J",
   "K","L","M","N","O","P","Q","R","S","T","U","V","W","X","Y","Z","0","1",
   "2","3","4","5","6","7","8","9","_"}

Digits == {"0","1","2","3","4","5","6","7","8","9"}

\* number of leading whitespace characters of s
LeadingSpace(s) ==
  IF \A k \in 1..Len(s) : Ch(s, k) \in Whitespace THEN Len(s)
  ELSE (CHOOSE k \in 1..Len(s) :
          /\ Ch(s, k) \notin Whitespace
          /\ \A j \in 1..(k - 1) : Ch(s, j) \in Whitespace) - 1

\* number of trailing whitespace characters of s
TrailingSpace(s) ==
  IF \A k \in 1..Len(s) : Ch(s, k) \in Whitespace THEN Len(s)
  ELSE Len(s) - (CHOOSE k \in 1..Len(s) :
          /\ Ch(s, k) \notin Whitespace
          /\ \A j \in (k + 1)..Len(s) : Ch(s, j) \in Whitespace)

\* str.lstrip(), str.rstrip(), str.strip()
lstrip(s) == (CHOOSE val \in {Slice(v, LeadingSpace(v) + 1, Len(v)) : v \in {s}} : TRUE)

rstrip(s) == (CHOOSE val \in {Slice(v, 1, Len(v) - TrailingSpace(v)) : v \in {s}} : TRUE)

strip(s) == lstrip(rstrip(s))

\* str.startswith(p), str.endswith(p), p in s, str.count(c)
startswith(s, p) == \E v \in {s} : Len(v) >= Len(p) /\ Slice(v, 1, Len(p)) = p

endswith(s, p) ==
  \E v \in {s} : Len(v) >= Len(p) /\ Slice(v, Len(v) - Len(p) + 1, Len(v)) = p

contains(s, p) ==
  \E v \in {s} : \E k \in 1..(Len(v) - Len(p) + 1) : SubSeq(v, k, k + Len(p) - 1) = p

count(s, c) == (CHOOSE val \in {Cardinality({k \in 1..Len(v) : Ch(v, k) = c}) : v \in {s}} : TRUE)

UpperLetters == "ABCDEFGHIJKLMNOPQRSTUVWXYZ"

LowerLetters == "abcdefghijklmnopqrstuvwxyz"

\* str.lower() of one character
LowerOf(c) ==
  (CHOOSE val \in {IF \E k \in 1..26 : Ch(UpperLetters, k) = v
        THEN Ch(LowerLetters, CHOOSE k \in 1..26 : Ch(UpperLetters, k) = v)
        ELSE v : v \in {c}} : TRUE)

RECURSIVE lower(_)
lower(s) ==
  (CHOOSE val \in {IF Len(v) = 0 THEN ""
        ELSE IF Len(v) = 1 THEN LowerOf(v)
        ELSE lower(SubSeq(v, 1, Len(v) \div 2))
               \o lower(SubSeq(v, Len(v) \div 2 + 1, Len(v))) : v \in {s}} : TRUE)

\* str.replace(old, new): every non-overlapping occurrence, left to right
RECURSIVE replace(_, _, _)
replace(s, old, new) ==
  LET found(v) == {k \in 1..(Len(v) - Len(old) + 1) : SubSeq(v, k, k + Len(old) - 1) = old}
      from(v, hits) ==
        IF hits = {} THEN v
        ELSE (CHOOSE val \in {Slice(v, 1, k - 1) \o new
                     \o replace(Slice(v, k + Len(old), Len(v)), old, new) :
                     k \in {CHOOSE k \in hits : \A j \in hits : k <= j}} : TRUE)
  IN  (CHOOSE val \in {(CHOOSE val \in {from(v, hits) : hits \in {found(v)}} : TRUE) : v \in {s}} : TRUE)

\* ' '.join(parts)
RECURSIVE join(_)
join(parts) ==
  (CHOOSE val \in {IF Len(v) = 0 THEN ""
        ELSE IF Len(v) = 1 THEN v[1]
             ELSE v[1] \o " " \o join(Tail(v)) : v \in {parts}} : TRUE)

(***************************************************************************)
(* Python regular expressions (module re).  A pattern is a sequence of     *)
(* items, matched left to right with backtracking in Python's order:       *)
(*   Lit(t)          the literal text t                                    *)
(*   Rep(c, n, g)    n or more characters of class c; greedy if g          *)
(*                   (longest first), lazy otherwise (shortest first)      *)
(*   One(c)          one character of class c                              *)
(*   Opt(t)          the literal t, optional (greedy)                      *)
(*   WordB           \b          Eol   $           Mark    a group bound   *)
(* ReOk tells whether the items from k on match at a position; ReMatch     *)
(* follows the first alternative, in Python's order, that leads to a       *)
(* match.  A match result is [ok, end, marks]: end is the position after   *)
(* the last matched character, marks the positions of the Mark items.      *)
(***************************************************************************)
Lit(t) == [t |-> "lit", s |-> t]

Rep(c, n, g) == [t |-> "rep", c |-> c, n |-> n, g |-> g]

One(c) == [t |-> "one", c |-> c]

Opt(t) == [t |-> "opt", s |-> t]

WordB == [t |-> "wb"]

Eol == [t |-> "eol"]

Mark == [t |-> "mark"]

\* character classes: Of(S) is [S], Not(S) is [^S]
Of(S) == [neg |-> FALSE, set |-> S]

Not(S) == [neg |-> TRUE, set |-> S]

InClass(c, cls) == IF cls.neg THEN c \notin cls.set ELSE c \in cls.set

Space == Of(Whitespace)

Word == Of(WordChars)

AnyChar == Not({"\n"})

NoMatch == [ok |-> FALSE, end |-> 0, marks |-> <<>>]

\* length of the run of class-c characters of s starting at pos
Run(s, pos, cls) ==
  IF \A k \in pos..Len(s) : InClass(Ch(s, k), cls) THEN Len(s) - pos + 1
  ELSE (CHOOSE k \in pos..Len(s) :
          /\ ~InClass(Ch(s, k), cls)
          /\ \A j \in pos..(k - 1) : InClass(Ch(s, j), cls)) - pos

IsWordAt(s, k) == k >= 1 /\ k <= Len(s) /\ Ch(s, k) \in WordChars

\* do items k.. of q match v from position p?
RECURSIVE ReOk(_, _, _, _)
ReOk(q, k, v, p) ==
  \E pat \in {q}, it \in {IF k > Len(q) THEN [t |-> "end"] ELSE q[k]}, s \in {v},
     pos \in {p}, run \in {IF k <= Len(q) /\ q[k].t = "rep" THEN Run(v, p, q[k].c) ELSE 0} :
    CASE it.t = "end" -> TRUE
      [] it.t = "lit" /\ Slice(s, pos, pos + Len(it.s) - 1) = it.s ->
           ReOk(pat, k + 1, s, pos + Len(it.s))
      [] it.t = "one" /\ pos <= Len(s) /\ InClass(Ch(s, pos), it.c) ->
           ReOk(pat, k + 1, s, pos + 1)
      [] it.t = "opt" /\ Slice(s, pos, pos + Len(it.s) - 1) = it.s
                     /\ ReOk(pat, k + 1, s, pos + Len(it.s)) -> TRUE
      [] it.t = "opt" -> ReOk(pat, k + 1, s, pos)
      [] it.t = "rep" -> \E n \in it.n..run : ReOk(pat, k + 1, s, pos + n)
      [] it.t = "wb" /\ IsWordAt(s, pos - 1) # IsWordAt(s, pos) ->
           ReOk(pat, k + 1, s, pos)
      [] it.t = "eol" /\ (pos = Len(s) + 1 \/ (pos = Len(s) /\ Ch(s, pos) = "\n")) ->
           ReOk(pat, k + 1, s, pos)
      [] it.t = "mark" -> ReOk(pat, k + 1, s, pos)
      [] OTHER -> FALSE

\* the repetition count of item k that Python settles on: the first of the
\* counts first, first + step, ..., first + step * d after which the rest of
\* the pattern matches
ReTry(pat, k, s, pos, first, step, d) ==
  first + step * (CHOOSE j \in 0..d :
                    /\ ReOk(pat, k + 1, s, pos + first + step * j)
                    /\ \A h \in 0..(j - 1) :
                         ~ReOk(pat, k + 1, s, pos + first + step * h))

\* the match of items k.. of q against v from position p, given that there is
\* one (ReOk(q, k, v, p)); m holds the marks passed so far
RECURSIVE ReMatch(_, _, _, _, _)
ReMatch(q, k, v, p, m) ==
  (CHOOSE val \in {
    CASE it.t = "end" -> [ok |-> TRUE, end |-> pos, marks |-> marks]
      [] it.t = "lit" -> ReMatch(pat, k + 1, s, pos + Len(it.s), marks)
      [] it.t = "one" -> ReMatch(pat, k + 1, s, pos + 1, marks)
      [] it.t = "opt" ->
           IF /\ Slice(s, pos, pos + Len(it.s) - 1) = it.s
              /\ ReOk(pat, k + 1, s, pos + Len(it.s))
           THEN ReMatch(pat, k + 1, s, pos + Len(it.s), marks)
           ELSE ReMatch(pat, k + 1, s, pos, marks)
      [] it.t = "rep" ->
           ReMatch(pat, k + 1, s,
                   pos + ReTry(pat, k, s, pos, IF it.g THEN run ELSE it.n,
                               IF it.g THEN -1 ELSE 1, run - it.n),
                   marks)
      [] it.t = "wb" -> ReMatch(pat, k + 1, s, pos, marks)
      [] it.t = "eol" -> ReMatch(pat, k + 1, s, pos, marks)
      [] it.t = "mark" -> ReMatch(pat, k + 1, s, pos, Append(marks, pos)) :
    pat \in {q}, it \in {IF k > Len(q) THEN [t |-> "end"] ELSE q[k]},
    s \in {v}, pos \in {p}, marks \in {m},
    run \in {IF k <= Len(q) /\ q[k].t = "rep" THEN Run(v, p, q[k].c) ELSE 0}} : TRUE)

\* re.match(pat, s): the match anchored at the start of s
re_match(pat, s) ==
  (CHOOSE val \in {IF ReOk(pat, 1, v, 1) THEN ReMatch(pat, 1, v, 1, <<>>) ELSE NoMatch : v \in {s}} : TRUE)

\* whether re.match(pat, s) finds a match
re_matched(pat, s) == \E v \in {s} : ReOk(pat, 1, v, 1)

NoFind == [ok |-> FALSE, start |-> 0, end |-> 0, marks |-> <<>>]

\* the positions of s at which a match of pat starts
Starts(pat, s) == {n \in 1..(Len(s) + 1) : ReOk(pat, 1, s, n)}

Least(S) == CHOOSE n \in S : \A j \in S : n <= j

\* the match of pat in s that starts at position n
FoundAt(pat, s, n) ==
  CHOOSE val \in {[ok |-> TRUE, start |-> n, end |-> r.end, marks |-> r.marks] :
                    r \in {ReMatch(pat, 1, s, n, <<>>)}} : TRUE

\* re.search(pat, s): the leftmost match
re_search(pat, s) ==
  LET first(v, starts) == IF starts = {} THEN NoFind ELSE FoundAt(pat, v, Least(starts))
  IN  CHOOSE val \in {(CHOOSE val \in {first(v, starts) : starts \in {Starts(pat, v)}} : TRUE) :
                        v \in {s}} : TRUE

\* whether re.search(pat, s) finds a match
re_found(pat, s) == \E v \in {s} : \E n \in 1..(Len(v) + 1) : ReOk(pat, 1, v, n)

\* the match in a set of <<start, end>> pairs that starts first
First(matches) == CHOOSE m \in matches : \A o \in matches : m[1] <= o[1]

\* re.sub from position pos of s on: matches holds the <<start, end>> of the
\* match that begins at each position where one begins
RECURSIVE SubFrom(_, _, _, _)
SubFrom(repl, s, pos, matches) ==
  CHOOSE val \in {IF ahead = {} THEN Slice(s, pos, Len(s))
                  ELSE Slice(s, pos, First(ahead)[1] - 1) \o repl
                         \o SubFrom(repl, s, First(ahead)[2], matches) :
                    ahead \in {{m \in matches : m[1] >= pos}}} : TRUE

\* re.sub(pat, repl, s) for a pattern that matches no empty string
re_sub(pat, repl, s) ==
  LET all(v) ==
        CHOOSE val \in {SubFrom(repl, v, 1, matches) :
          matches \in {{<<n, ReMatch(pat, 1, v, n, <<>>).end>> :
                          n \in {n \in 1..Len(v) : ReOk(pat, 1, v, n)}}}} : TRUE
  IN  CHOOSE val \in {all(v) : v \in {s}} : TRUE

\* any(re.match(pattern, s) for pattern in patterns)
AnyMatch(patterns, s) ==
  \E v \in {s} : \E k \in 1..Len(patterns) : re_matched(patterns[k], v)

\* any(re.search(pattern, s) for pattern in patterns)
AnySearch(patterns, s) ==
  \E v \in {s} : \E k \in 1..Len(patterns) : re_found(patterns[k], v)

\* any(s.startswith(keyword) for keyword in keywords)
AnyStartsWith(keywords, s) == \E k \in 1..Len(keywords) : startswith(s, keywords[k])

\* s.endswith((suffix, ...))
AnyEndsWith(suffixes, s) == \E k \in 1..Len(suffixes) : endswith(s, suffixes[k])

(***************************************************************************)
(* State.  self is the SyntaxErrorPatcher object with its five patchers;   *)
(* a patcher that is used on its own is the corresponding field of self.   *)
(***************************************************************************)
VARIABLES
  entry,            \* the public method that was called
  input,            \* the argument of the call
  pc,               \* the call, loop or step that runs next; "done" after the return
  rtl_lines,        \* the line list the running pass reads; the returned list at "done"
  fixed_lines,      \* the line list the running pass has emitted so far
  i,                \* index of the scanning loop of the running pass
  self,             \* the attributes of the patcher objects
  case_structures,  \* local of _identify_case_structures
  pairs,            \* local of _analyze_if_else_pairing: else line -> pairing record
  active_ifs,       \* local of _analyze_if_else_pairing
  passes,           \* the passes that have returned during this call, in order
  calls,            \* number of calls made on the object so far
  fixes_at_call     \* self.total_fixes when the running call started

vars == <<entry, input, pc, rtl_lines, fixed_lines, i, self, case_structures,
          pairs, active_ifs, passes, calls, fixes_at_call>>

\* the variables of one pass: what it reads, what it has emitted, where it is
scan == <<rtl_lines, fixed_lines, i>>

\* the locals that only the case and if-else passes use
locals == <<case_structures, pairs, active_ifs>>

\* the call that is in progress
call == <<entry, input, calls, fixes_at_call>>

\* control passes to the next step: to `next` inside fix_all_syntax_errors,
\* back to the caller when the patcher was called on its own
\* variant in which the generate pass runs straight after the assign pass
Continue_generate_first(next) ==
  IF entry = "fix_all_syntax_errors"
  THEN (IF next = "call_case" THEN "call_generate" ELSE next)
  ELSE "done"

Continue(next) == IF entry = "fix_all_syntax_errors" THEN next ELSE "done"

(***************************************************************************)
(* SyntaxErrorPatcher._update_stats and the number formatting it undoes.   *)
(***************************************************************************)
DigitChars == <<"0", "1", "2", "3", "4", "5", "6", "7", "8", "9">>

\* str(n) for a natural number n, as the f-strings of get_summary format it
RECURSIVE str_of(_)
str_of(n) ==
  IF n < 10 THEN DigitChars[n + 1]
  ELSE str_of(n \div 10) \o DigitChars[(n % 10) + 1]

DigitValue(c) == (CHOOSE d \in 1..10 : DigitChars[d] = c) - 1

\* int(s) for a string of decimal digits
RECURSIVE int_of(_)
int_of(s) ==
  IF Len(s) = 0 THEN 0
  ELSE 10 * int_of(Slice(s, 1, Len(s) - 1)) + DigitValue(Ch(s, Len(s)))

\* fixed\s*(\d+)
fixed_pattern ==
  <<Lit("fixed"), Rep(Space, 0, TRUE), Mark, Rep(Of(Digits), 1, TRUE), Mark>>

\* the value of self.total_fixes after _update_stats(summary)
_update_stats(total_fixes, summary) ==
  IF summary # "" /\ contains(summary, "fixed")
  THEN LET match == re_search(fixed_pattern, summary)
       IN  IF match.ok
           THEN total_fixes + int_of(Slice(summary, match.marks[1], match.marks[2] - 1))
           ELSE total_fixes
  ELSE total_fixes

\* self after `self._update_stats(summary)` inside fix_all_syntax_errors;
\* a patcher that was called on its own has no orchestrator to report to
Reported(obj, summary) ==
  IF entry = "fix_all_syntax_errors"
  THEN [obj EXCEPT !.total_fixes = _update_stats(@, summary)]
  ELSE obj

\* sep.join(parts)
RECURSIVE join_with(_, _)
join_with(parts, sep) ==
  IF Len(parts) = 0 THEN ""
  ELSE IF Len(parts) = 1 THEN parts[1]
       ELSE parts[1] \o sep \o join_with(Tail(parts), sep)

(***************************************************************************)
(* AssignStatementPatcher                                                  *)
(***************************************************************************)
_is_assign_start(line_clean) ==
  startswith(line_clean, "assign ") /\ contains(line_clean, "=")

new_statement_keywords ==
  <<"assign ", "always", "wire ", "reg ", "input ", "output ",
    "module ", "endmodule", "begin", "end", "if ", "case ">>

_is_new_statement_start(line_clean) ==
  AnyStartsWith(new_statement_keywords, line_clean)

continuation_patterns ==
  <<  <<Rep(Space, 0, TRUE), Lit("|"), Rep(Space, 0, TRUE)>>,
      <<Rep(Space, 0, TRUE), Lit("&"), Rep(Space, 0, TRUE)>>,
      <<Rep(Space, 0, TRUE), Lit("^"), Rep(Space, 0, TRUE)>>,
      <<Rep(Space, 0, TRUE), Lit("+"), Rep(Space, 0, TRUE)>>,
      <<Rep(Space, 0, TRUE), Lit("-"), Rep(Space, 0, TRUE)>>,
      <<Rep(Space, 0, TRUE), Lit("?"), Rep(Space, 0, TRUE)>>,
      <<Rep(Space, 0, TRUE), Lit(":"), Rep(Space, 0, TRUE)>>,
      <<Rep(Space, 0, TRUE), Lit("=="), Rep(Space, 0, TRUE)>>,
      <<Rep(Space, 0, TRUE), Lit("!="), Rep(Space, 0, TRUE)>>  >>

_is_continuation_line(line_clean) == AnyMatch(continuation_patterns, line_clean)

\* the while loop of _collect_complete_assign, from index idx on
RECURSIVE CollectLoop(_, _, _, _)
CollectLoop(lines, idx, assign_parts, lines_consumed) ==
  IF idx >= Len(lines)
  THEN [parts |-> assign_parts, lines_consumed |-> lines_consumed]
  ELSE (CHOOSE val \in {
    IF next_line = "" \/ startswith(next_line, "//")
    THEN CollectLoop(lines, idx + 1, assign_parts, lines_consumed + 1)
    ELSE IF _is_new_statement_start(next_line) /\ ~_is_continuation_line(next_line)
    THEN [parts |-> assign_parts, lines_consumed |-> lines_consumed]
    ELSE IF endswith(next_line, ";")
    THEN [parts |-> Append(assign_parts, next_line),
          lines_consumed |-> lines_consumed + 1]
    ELSE CollectLoop(lines, idx + 1, Append(assign_parts, next_line),
                     lines_consumed + 1) :
    next_line \in {strip(At(lines, idx))}} : TRUE)

_collect_complete_assign(lines, start_idx) ==
  LET needs_continuation(first_line) ==
        \/ ~endswith(first_line, ";")
        \/ AnyEndsWith(<<"|", "&", "^", "+", "-", "?", ":", "=">>, first_line)
      collected(first_line) ==
        IF needs_continuation(first_line)
        THEN CollectLoop(lines, start_idx + 1, <<first_line>>, 1)
        ELSE [parts |-> <<first_line>>, lines_consumed |-> 1]
  IN  (CHOOSE val \in {[complete_assign |-> join(c.parts), lines_consumed |-> c.lines_consumed] :
              c \in {collected(strip(At(lines, start_idx)))}} : TRUE)

\* (assign\s+[^=]+=\s*[^;]+?)\s+(assign\s+.*)
split_pattern ==
  <<Mark, Lit("assign"), Rep(Space, 1, TRUE), Rep(Not({"="}), 1, TRUE), Lit("="),
    Rep(Space, 0, TRUE), Rep(Not({";"}), 1, FALSE), Mark,
    Rep(Space, 1, TRUE),
    Mark, Lit("assign"), Rep(Space, 1, TRUE), Rep(AnyChar, 0, TRUE)>>

_split_multiple_assigns(line) ==
  LET parts(current, match) ==
        (CHOOSE val \in {<< IF endswith(first_assign, ";") THEN first_assign
                 ELSE first_assign \o ";", rest >> :
                first_assign \in
                  {strip(Slice(current, match.marks[1], match.marks[2] - 1))},
                rest \in {strip(Slice(current, match.marks[3], match.end - 1))}} : TRUE)
      split(current) ==
        (CHOOSE val \in {IF match.ok THEN parts(current, match) ELSE <<line>> :
                match \in {re_search(split_pattern, current)}} : TRUE)
  IN  (CHOOSE val \in {split(current) : current \in {strip(line)}} : TRUE)

\* \?\s*else\s+if\s*\([^)]+\)\s*[^;:]+;\s*:
complex_ternary_pattern ==
  <<Lit("?"), Rep(Space, 0, TRUE), Lit("else"), Rep(Space, 1, TRUE), Lit("if"),
    Rep(Space, 0, TRUE), Lit("("), Rep(Not({")"}), 1, TRUE), Lit(")"),
    Rep(Space, 0, TRUE), Rep(Not({";", ":"}), 1, TRUE), Lit(";"),
    Rep(Space, 0, TRUE), Lit(":")>>

_fix_complex_ternary(line) ==
  (CHOOSE val \in {IF re_found(complex_ternary_pattern, v)
        THEN re_sub(complex_ternary_pattern, " ? 1'b0 :", v)
        ELSE v : v \in {line}} : TRUE)

RECURSIVE AppendDefaults(_, _)
AppendDefaults(line, n) ==
  IF n <= 0 THEN line ELSE AppendDefaults(line \o " : 1'b0", n - 1)

\* variant that appends no default branch
_fix_ternary_operator_unbalanced(line) == line

_fix_ternary_operator(line) ==
  (CHOOSE val \in {IF question_count > colon_count
        THEN AppendDefaults(v, question_count - colon_count)
        ELSE v :
          v \in {line},
          question_count \in {count(line, "?")},
          colon_count \in {count(line, ":")}} : TRUE)

\* the statements of _fix_assign_statement, each applied to the value of
\* fixed_line that the one before has left
_fix_assign_statement(assign_line) ==
  LET double_equals(l) == re_sub(<<Lit("="), Rep(Space, 1, TRUE), Lit("=")>>, "==", l)
      colons(l) ==
        CHOOSE val \in {double_equals(n) :
          n \in {re_sub(<<Rep(Space, 0, TRUE), Lit(":"), Rep(Space, 0, TRUE)>>, " : ", l)}} : TRUE
      questions(l) ==
        CHOOSE val \in {colons(n) :
          n \in {re_sub(<<Rep(Space, 0, TRUE), Lit("?"), Rep(Space, 0, TRUE)>>, " ? ", l)}} : TRUE
      equals(l) ==
        CHOOSE val \in {questions(n) :
          n \in {re_sub(<<Rep(Space, 0, TRUE), Lit("="), Rep(Space, 0, TRUE)>>, " = ", l)}} : TRUE
      whitespace(l) ==
        CHOOSE val \in {equals(n) : n \in {re_sub(<<Rep(Space, 1, TRUE)>>, " ", l)}} : TRUE
      semicolon(l) ==
        CHOOSE val \in {whitespace(n) :
          n \in {IF ~endswith(strip(l), ";") THEN rstrip(l) \o ";" ELSE l}} : TRUE
      ternary(l) ==
        CHOOSE val \in {semicolon(n) : n \in {_fix_ternary_operator(l)}} : TRUE
      less_equal(l) ==
        CHOOSE val \in {ternary(n) :
          n \in {re_sub(<<Lit("<"), Rep(Space, 0, TRUE), Lit("=")>>, "<=", l)}} : TRUE
  IN  IF strip(assign_line) = "" THEN assign_line
      ELSE CHOOSE val \in {less_equal(n) : n \in {_fix_complex_ternary(assign_line)}} : TRUE

ternary_patterns ==
  <<  <<Rep(Space, 0, TRUE), Lit("?"), Rep(Space, 0, TRUE)>>,
      <<Rep(Space, 0, TRUE), Lit(":"), Rep(Space, 0, TRUE)>>,
      <<Rep(Space, 0, TRUE), Lit("|"), Rep(Space, 0, TRUE)>>,
      <<Rep(Space, 0, TRUE), Lit("&"), Rep(Space, 0, TRUE)>>,
      <<Rep(Space, 0, TRUE), Lit("^"), Rep(Space, 0, TRUE)>>  >>

_is_orphan_ternary_part(line_clean) == AnyMatch(ternary_patterns, line_clean)

_can_merge_with_previous(prev_line, curr_line) ==
  \E prev_clean \in {strip(prev_line)}, curr_clean \in {strip(curr_line)} :
    \/ AnyEndsWith(<<"?", "&", "|", "^", "+", "-">>, prev_clean)
    \/ AnyStartsWith(<<"?", ":", "&", "|", "^", "+", "-">>, curr_clean)
    \/ (startswith(prev_clean, "assign ") /\ ~endswith(prev_clean, ";"))

_merge_ternary_lines(prev_line, curr_line) ==
  rstrip(prev_line) \o " " \o strip(curr_line)

incomplete_patterns ==
  <<  <<Lit("="), Rep(Space, 0, TRUE), Eol>>,
      <<Lit("<="), Rep(Space, 0, TRUE), Eol>>,
      <<Lit("?"), Rep(Space, 0, TRUE), Eol>>,
      <<Lit(":"), Rep(Space, 0, TRUE), Eol>>  >>

_is_incomplete_assignment(line_clean) == AnySearch(incomplete_patterns, line_clean)

_fix_incomplete_assignment(line) ==
  (CHOOSE val \in {IF endswith(line_clean, "=") THEN rstrip(line) \o " 1'b0;"
        ELSE IF endswith(line_clean, "<=") THEN rstrip(line) \o " 1'b0;"
        ELSE IF endswith(line_clean, "?") THEN rstrip(line) \o " 1'b1 : 1'b0;"
        ELSE IF endswith(line_clean, ":") THEN rstrip(line) \o " 1'b0;"
        ELSE line :
          line_clean \in {strip(line)}} : TRUE)

\* the statements of `seq` that _fix_assign_statement leaves non-blank, fixed
RECURSIVE FixedNonBlank(_)
FixedNonBlank(stmts) ==
  IF Len(stmts) = 0 THEN <<>>
  ELSE (CHOOSE val \in {(IF strip(fixed_assign) # "" THEN <<fixed_assign>> ELSE <<>>)
                \o FixedNonBlank(Tail(stmts)) :
               fixed_assign \in {_fix_assign_statement(Head(stmts))}} : TRUE)

\* fix_assign_statements(rtl_lines) is called: the counters are reset
CallAssign ==
  /\ pc = "call_assign"
  /\ pc' = "assign"
  /\ fixed_lines' = <<>>
  /\ i' = 0
  /\ self' = [self EXCEPT !.assign_patcher =
                [fixed_count |-> 0, merged_count |-> 0]]
  /\ UNCHANGED <<rtl_lines, locals, passes, call>>

\* one iteration of the while loop of fix_assign_statements
AssignIter ==
  /\ pc = "assign"
  /\ i < Len(rtl_lines)
  /\ \E line \in {At(rtl_lines, i)}, ap \in {self.assign_patcher} :
     \E line_clean \in {strip(line)} :
     IF _is_assign_start(line_clean) THEN
       \E c \in {_collect_complete_assign(rtl_lines, i)} :
       \E merged \in {IF c.lines_consumed > 1 THEN 1 ELSE 0},
          multiple_assigns \in {_split_multiple_assigns(c.complete_assign)} :
         IF Len(multiple_assigns) > 1
         THEN /\ fixed_lines' = fixed_lines \o FixedNonBlank(multiple_assigns)
              /\ self' = [self EXCEPT !.assign_patcher =
                            [fixed_count |-> ap.fixed_count + 1,
                             merged_count |-> ap.merged_count + merged]]
              /\ i' = i + c.lines_consumed
         ELSE \E fixed_assign \in {_fix_assign_statement(c.complete_assign)} :
              /\ fixed_lines' = fixed_lines \o (IF strip(fixed_assign) # ""
                                                THEN <<fixed_assign>> ELSE <<>>)
              /\ self' = [self EXCEPT !.assign_patcher =
                            [fixed_count |-> ap.fixed_count +
                                (IF fixed_assign # c.complete_assign THEN 1 ELSE 0),
                             merged_count |-> ap.merged_count + merged]]
              /\ i' = i + c.lines_consumed
     ELSE IF _is_orphan_ternary_part(line_clean) THEN
       /\ IF Len(fixed_lines) > 0
             /\ _can_merge_with_previous(fixed_lines[Len(fixed_lines)], line)
          THEN /\ fixed_lines' =
                    [fixed_lines EXCEPT ![Len(fixed_lines)] =
                        _merge_ternary_lines(fixed_lines[Len(fixed_lines)], line)]
               /\ self' = [self EXCEPT !.assign_patcher.fixed_count = @ + 1]
          ELSE /\ fixed_lines' = Append(fixed_lines, line)
               /\ UNCHANGED self
       /\ i' = i + 1
     ELSE IF _is_incomplete_assignment(line_clean) THEN
       \E fixed_line \in {_fix_incomplete_assignment(line)} :
       /\ fixed_lines' = Append(fixed_lines, fixed_line)
       /\ self' = [self EXCEPT !.assign_patcher.fixed_count =
                      IF fixed_line # line THEN @ + 1 ELSE @]
       /\ i' = i + 1
     ELSE
       /\ fixed_lines' = Append(fixed_lines, line)
       /\ UNCHANGED self
       /\ i' = i + 1
  /\ UNCHANGED <<pc, rtl_lines, locals, passes, call>>

Assign_get_summary(ap) ==
  IF ap.fixed_count > 0 \/ ap.merged_count > 0
  THEN "Assign patch: fixed " \o str_of(ap.fixed_count) \o " issues, merged "
         \o str_of(ap.merged_count) \o " multi-line assigns"
  ELSE "Assign patch: no changes needed"

\* the loop of fix_assign_statements has ended: return fixed_lines; in
\* fix_all_syntax_errors the result becomes rtl_lines and the summary is reported
AssignReturn ==
  /\ pc = "assign"
  /\ i >= Len(rtl_lines)
  /\ rtl_lines' = fixed_lines
  /\ passes' = Append(passes, "assign")
  /\ self' = Reported(self, Assign_get_summary(self.assign_patcher))
  /\ pc' = Continue("call_case")
  /\ UNCHANGED <<fixed_lines, i, locals, call>>

(***************************************************************************)
(* CaseStatementPatcher                                                    *)
(***************************************************************************)
\* \bcase\s*\(
case_pattern == <<WordB, Lit("case"), Rep(Space, 0, TRUE), Lit("(")>>

\* check_line == "endcase" or check_line.startswith("endcase")
is_endcase(line_clean) == line_clean = "endcase" \/ startswith(line_clean, "endcase")

\* CaseStatementPatcher._get_indent: the leading blanks and tabs
Case_get_indent(line) == Slice(line, 1, Run(line, 1, Of({" ", "\t"})))

\* the inner while loop of _identify_case_structures: the index of the first
\* endcase line at or after j, -1 (None) when there is none
RECURSIVE FindCaseEnd(_, _)
FindCaseEnd(lines, j) ==
  IF j >= Len(lines) THEN -1
  ELSE IF is_endcase(strip(At(lines, j))) THEN j
  ELSE FindCaseEnd(lines, j + 1)

\* \s*\{[^}]+\}\s*:\s*$
label_pattern ==
  <<Rep(Space, 0, TRUE), Lit("{"), Rep(Not({"}"}), 1, TRUE), Lit("}"),
    Rep(Space, 0, TRUE), Lit(":"), Rep(Space, 0, TRUE), Eol>>

_is_empty_case_structure(lines, case_struct) ==
  \A idx \in (case_struct.start + 1)..(case_struct.end - 1) :
    \/ idx >= Len(lines)
    \/ LET line == strip(At(lines, idx)) IN
         \/ line = ""
         \/ startswith(line, "//")
         \/ startswith(line, "default:")
         \/ re_matched(label_pattern, line)
         \/ ~(\/ contains(line, "=")
              \/ \E keyword \in {"begin", "if", "for", "while"} : contains(line, keyword))

\* del filtered[start_idx : end_idx + 1]
DeleteRange(filtered, start_idx, end_idx) ==
  SubSeq(filtered, 1, start_idx) \o SubSeq(filtered, end_idx + 2, Len(filtered))

\* the deletion loop of _remove_empty_case_blocks over the ranges sorted by
\* descending start index
RECURSIVE DeleteRanges(_, _)
DeleteRanges(filtered, ranges) ==
  IF ranges = {} THEN filtered
  ELSE LET r == CHOOSE r \in ranges : \A o \in ranges : o.start <= r.start
       IN  DeleteRanges(DeleteRange(filtered, r.start, r.end), ranges \ {r})

_should_check_for_missing_endcase(line_clean) ==
  AnyStartsWith(<<"always", "assign", "wire ", "reg ", "input ", "output ",
                  "module ", "endmodule", "begin", "end", "if ", "else">>,
                line_clean)

\* the while loop of _check_missing_endcases
RECURSIVE CheckLoop(_, _, _)
CheckLoop(case_stack, line_indent, missing_endcases) ==
  IF Len(case_stack) = 0
  THEN [missing_endcases |-> missing_endcases, case_stack |-> case_stack]
  ELSE LET case_info == case_stack[Len(case_stack)] IN
    IF ~case_info.found_endcase /\ Len(line_indent) <= Len(case_info.indent)
    THEN CheckLoop(SubSeq(case_stack, 1, Len(case_stack) - 1), line_indent,
                   Append(missing_endcases, case_info.indent))
    ELSE [missing_endcases |-> missing_endcases, case_stack |-> case_stack]

\* variant that finds no endcase to insert
_check_missing_endcases_none(case_stack, line) ==
  [missing_endcases |-> <<>>, case_stack |-> case_stack]

\* the indents of the endcase lines to insert, and the case stack left
_check_missing_endcases(case_stack, line) ==
  CheckLoop(case_stack, Case_get_indent(line), <<>>)

\* one iteration of the outer while loop of _identify_case_structures on
\* the locals st = [i, case_structures]
IdentifyStep(lines, st) ==
  LET line == strip(At(lines, st.i))
      case_end == FindCaseEnd(lines, st.i + 1)
  IN  IF re_found(case_pattern, line) /\ case_end # -1
      THEN [i |-> case_end + 1,
            case_structures |-> Append(st.case_structures,
                                       [start |-> st.i, end |-> case_end])]
      ELSE [st EXCEPT !.i = @ + 1]

RECURSIVE IdentifyFrom(_, _)
IdentifyFrom(lines, st) ==
  IF st.i >= Len(lines) THEN st.case_structures
  ELSE IdentifyFrom(lines, IdentifyStep(lines, st))

_identify_case_structures(lines) ==
  IdentifyFrom(lines, [i |-> 0, case_structures |-> <<>>])

\* fix_case_statements(rtl_lines) is called: the counters are reset and
\* _remove_empty_case_blocks starts _identify_case_structures
CallCase ==
  /\ pc = "call_case"
  /\ pc' = "case_identify"
  /\ self' = [self EXCEPT !.case_patcher.fixed_count = 0,
                          !.case_patcher.removed_count = 0]
  /\ case_structures' = <<>>
  /\ i' = 0
  /\ fixed_lines' = <<>>
  /\ UNCHANGED <<rtl_lines, pairs, active_ifs, passes, call>>

\* one iteration of the outer while loop of _identify_case_structures
CaseIdentifyIter ==
  /\ pc = "case_identify"
  /\ i < Len(rtl_lines)
  /\ LET st == IdentifyStep(rtl_lines, [i |-> i, case_structures |-> case_structures])
     IN  /\ i' = st.i
         /\ case_structures' = st.case_structures
  /\ UNCHANGED <<pc, rtl_lines, fixed_lines, self, pairs, active_ifs, passes, call>>

\* the rest of _remove_empty_case_blocks, then _fix_missing_endcase starts
\* on the cleaned lines with an empty case stack
CaseRemoveEmpty ==
  /\ pc = "case_identify"
  /\ i >= Len(rtl_lines)
  /\ LET empty_case_ranges ==
           {case_structures[k] : k \in
              {n \in 1..Len(case_structures) :
                 _is_empty_case_structure(rtl_lines, case_structures[n])}}
     IN  /\ rtl_lines' = DeleteRanges(rtl_lines, empty_case_ranges)
         /\ self' = [self EXCEPT
                !.case_patcher.removed_count = @ + Cardinality(empty_case_ranges),
                !.case_patcher.case_stack = <<>>]
  /\ pc' = "case_fix"
  /\ fixed_lines' = <<>>
  /\ i' = 0
  /\ UNCHANGED <<locals, passes, call>>

\* one iteration of the first while loop of _fix_missing_endcase
CaseFixIter ==
  /\ pc = "case_fix"
  /\ i < Len(rtl_lines)
  /\ LET line == At(rtl_lines, i)
         line_clean == strip(line)
         case_stack == self.case_patcher.case_stack
     IN
     IF re_found(case_pattern, line_clean) THEN
       /\ fixed_lines' = Append(fixed_lines, line)
       /\ self' = [self EXCEPT !.case_patcher.case_stack =
              Append(@, [line_num |-> i, indent |-> Case_get_indent(line),
                         found_endcase |-> FALSE])]
     ELSE IF is_endcase(line_clean) THEN
       /\ fixed_lines' = Append(fixed_lines, line)
       /\ self' = [self EXCEPT !.case_patcher.case_stack =
              IF Len(@) > 0 THEN SubSeq(@, 1, Len(@) - 1) ELSE @]
     ELSE IF _should_check_for_missing_endcase(line_clean) /\ Len(case_stack) > 0 THEN
       LET m == _check_missing_endcases(case_stack, line) IN
       /\ fixed_lines' =
            Append(fixed_lines \o
                     [k \in 1..Len(m.missing_endcases) |->
                        m.missing_endcases[k] \o "endcase"],
                   line)
       /\ self' = [self EXCEPT !.case_patcher.case_stack = m.case_stack,
                               !.case_patcher.fixed_count = @ + Len(m.missing_endcases)]
     ELSE
       /\ fixed_lines' = Append(fixed_lines, line)
       /\ UNCHANGED self
  /\ i' = i + 1
  /\ UNCHANGED <<pc, rtl_lines, locals, passes, call>>

\* one iteration of the final while loop of _fix_missing_endcase
CaseFlush ==
  /\ pc = "case_fix"
  /\ i >= Len(rtl_lines)
  /\ Len(self.case_patcher.case_stack) > 0
  /\ LET case_stack == self.case_patcher.case_stack
         case_info == case_stack[Len(case_stack)]
     IN  IF ~case_info.found_endcase
         THEN /\ fixed_lines' = Append(fixed_lines, case_info.indent \o "endcase")
              /\ self' = [self EXCEPT
                     !.case_patcher.case_stack = SubSeq(@, 1, Len(@) - 1),
                     !.case_patcher.fixed_count = @ + 1]
         ELSE /\ UNCHANGED fixed_lines
              /\ self' = [self EXCEPT
                     !.case_patcher.case_stack = SubSeq(@, 1, Len(@) - 1)]
  /\ UNCHANGED <<pc, rtl_lines, i, locals, passes, call>>

Case_get_summary(cp) ==
  LET summary_parts ==
        (IF cp.removed_count > 0
         THEN <<"removed " \o str_of(cp.removed_count) \o " empty case blocks">>
         ELSE <<>>)
        \o (IF cp.fixed_count > 0
            THEN <<"inserted " \o str_of(cp.fixed_count) \o " missing 'endcase'">>
            ELSE <<>>)
  IN  IF Len(summary_parts) > 0
      THEN "Case patch: " \o join_with(summary_parts, ", ")
      ELSE "Case patch: no changes needed"

\* the case stack is empty: fix_case_statements returns the fixed lines
CaseReturn ==
  /\ pc = "case_fix"
  /\ i >= Len(rtl_lines)
  /\ Len(self.case_patcher.case_stack) = 0
  /\ rtl_lines' = fixed_lines
  /\ passes' = Append(passes, "case")
  /\ self' = Reported(self, Case_get_summary(self.case_patcher))
  /\ pc' = Continue("call_if_else")
  /\ UNCHANGED <<fixed_lines, i, locals, call>>

(***************************************************************************)
(* IfElsePatcher                                                           *)
(***************************************************************************)
\* IfElsePatcher._get_indent: the leading blanks and tabs
IfElse_get_indent(line) == Slice(line, 1, Run(line, 1, Of({" ", "\t"})))

\* \bif\s*\(
if_pattern == <<WordB, Lit("if"), Rep(Space, 0, TRUE), Lit("(")>>

\* \belse\s+if\s*\(
else_if_pattern ==
  <<WordB, Lit("else"), Rep(Space, 1, TRUE), Lit("if"), Rep(Space, 0, TRUE), Lit("(")>>

\* \belse\s*$ and \belse\s+begin
else_patterns ==
  <<  <<WordB, Lit("else"), Rep(Space, 0, TRUE), Eol>>,
      <<WordB, Lit("else"), Rep(Space, 1, TRUE), Lit("begin")>>  >>

_is_if_statement(line_clean) ==
  re_found(if_pattern, line_clean) /\ ~startswith(line_clean, "else")

_is_else_if_statement(line_clean) == re_found(else_if_pattern, line_clean)

_is_else_statement(line_clean) ==
  IF contains(line_clean, "else if") THEN FALSE
  ELSE AnySearch(else_patterns, line_clean)

\* variant that leaves the dangling else-if line as it is
_convert_else_if_to_if_kept(line) == line

_convert_else_if_to_if(line) == re_sub(else_if_pattern, "if (", line)

is_begin(check_line) == check_line = "begin" \/ endswith(check_line, "begin")

is_end(check_line) == check_line = "end" \/ startswith(check_line, "end")

\* the first for loop of _find_if_block_end over range(idx, stop): the index
\* of the line that ends in begin, -1 when a statement comes first
RECURSIVE FindBegin(_, _, _)
FindBegin(lines, idx, stop) ==
  IF idx >= stop THEN -1
  ELSE LET check_line == strip(At(lines, idx)) IN
    IF is_begin(check_line) THEN idx
    ELSE IF check_line # "" /\ ~startswith(check_line, "//") THEN -1
    ELSE FindBegin(lines, idx + 1, stop)

\* the depth-counting for loop of _find_if_block_end from index idx on
RECURSIVE FindMatchingEnd(_, _, _)
FindMatchingEnd(lines, idx, depth) ==
  IF idx >= Len(lines) THEN Len(lines) - 1
  ELSE LET check_line == strip(At(lines, idx)) IN
    IF is_begin(check_line) THEN FindMatchingEnd(lines, idx + 1, depth + 1)
    ELSE IF is_end(check_line)
    THEN IF depth - 1 = 0 THEN idx
         ELSE FindMatchingEnd(lines, idx + 1, depth - 1)
    ELSE FindMatchingEnd(lines, idx + 1, depth)

\* the last for loop of _find_if_block_end over range(idx, stop): the index
\* of the first line that contains a semicolon, -1 when there is none
RECURSIVE FindSemicolon(_, _, _)
FindSemicolon(lines, idx, stop) ==
  IF idx >= stop THEN -1
  ELSE IF contains(At(lines, idx), ";") THEN idx
  ELSE FindSemicolon(lines, idx + 1, stop)

Min(a, b) == IF a < b THEN a ELSE b

Max(a, b) == IF a > b THEN a ELSE b

_find_if_block_end(lines, if_idx) ==
  LET search_start == FindBegin(lines, if_idx + 1, Min(if_idx + 5, Len(lines)))
      semi == FindSemicolon(lines, if_idx + 1, Min(if_idx + 10, Len(lines)))
  IN  IF search_start # -1 THEN FindMatchingEnd(lines, search_start + 1, 1)
      ELSE IF semi # -1 THEN semi
      ELSE Min(if_idx + 3, Len(lines) - 1)

\* variant that does not look at has_else
_find_matching_if_for_else_claimed(ifs, else_indent, else_line) ==
  LET ok == {k \in 1..Len(ifs) :
               /\ ifs[k].indent = else_indent
               /\ ifs[k].block_end < else_line
               /\ else_line <= ifs[k].block_end + 5}
  IN  IF ok = {} THEN 0 ELSE CHOOSE k \in ok : \A o \in ok : o <= k

\* the position in active_ifs of the context _find_matching_if_for_else
\* returns, 0 for None: the last one that qualifies
_find_matching_if_for_else(ifs, else_indent, else_line) ==
  LET ok == {k \in 1..Len(ifs) :
               /\ ifs[k].indent = else_indent
               /\ ifs[k].block_end < else_line
               /\ else_line <= ifs[k].block_end + 5
               /\ ~ifs[k].has_else}
  IN  IF ok = {} THEN 0 ELSE CHOOSE k \in ok : \A o \in ok : o <= k

\* active_ifs = [ctx for ctx in active_ifs if ctx["block_end"] >= i]
RECURSIVE StillActive(_, _)
StillActive(ifs, idx) ==
  IF Len(ifs) = 0 THEN <<>>
  ELSE (IF Head(ifs).block_end >= idx THEN <<Head(ifs)>> ELSE <<>>)
         \o StillActive(Tail(ifs), idx)

\* one iteration of the while loop of _analyze_if_else_pairing on the
\* locals st = [i, pairs, active_ifs]
AnalyzeStep(lines, st) ==
  LET line == At(lines, st.i)
      line_clean == strip(line)
      indent == Len(IfElse_get_indent(line))
      opened == [line |-> st.i, indent |-> indent,
                 block_end |-> _find_if_block_end(lines, st.i), has_else |-> FALSE]
      m == _find_matching_if_for_else(st.active_ifs, indent, st.i)
      paired == (st.i :> [has_matching_if |-> TRUE, if_line |-> st.active_ifs[m].line])
                  @@ st.pairs
      unpaired == (st.i :> [has_matching_if |-> FALSE, if_line |-> -1]) @@ st.pairs
      claimed == [st.active_ifs EXCEPT ![m].has_else = TRUE]
  IN
  IF line_clean = "" \/ startswith(line_clean, "//")
  THEN [st EXCEPT !.i = @ + 1]
  ELSE IF _is_if_statement(line_clean)
  THEN [st EXCEPT !.i = @ + 1, !.active_ifs = Append(@, opened)]
  ELSE IF _is_else_if_statement(line_clean)
  THEN IF m # 0
       THEN [i |-> st.i + 1, pairs |-> paired, active_ifs |-> Append(claimed, opened)]
       ELSE [st EXCEPT !.i = @ + 1, !.pairs = unpaired]
  ELSE IF _is_else_statement(line_clean)
  THEN IF m # 0
       THEN [i |-> st.i + 1, pairs |-> paired, active_ifs |-> claimed]
       ELSE [st EXCEPT !.i = @ + 1, !.pairs = unpaired]
  ELSE [st EXCEPT !.i = @ + 1, !.active_ifs = StillActive(@, st.i)]

RECURSIVE AnalyzeFrom(_, _)
AnalyzeFrom(lines, st) ==
  IF st.i >= Len(lines) THEN st.pairs ELSE AnalyzeFrom(lines, AnalyzeStep(lines, st))

_analyze_if_else_pairing(lines) ==
  AnalyzeFrom(lines, [i |-> 0, pairs |-> <<>>, active_ifs |-> <<>>])

\* fix_if_else_statements(rtl_lines) is called: the counter is reset and
\* _analyze_if_else_pairing starts
CallIfElse ==
  /\ pc = "call_if_else"
  /\ pc' = "if_else_analyze"
  /\ self' = [self EXCEPT !.if_else_patcher.fixed_count = 0]
  /\ pairs' = <<>>
  /\ active_ifs' = <<>>
  /\ i' = 0
  /\ fixed_lines' = <<>>
  /\ UNCHANGED <<rtl_lines, case_structures, passes, call>>

\* one iteration of the while loop of _analyze_if_else_pairing
IfElseAnalyzeIter ==
  /\ pc = "if_else_analyze"
  /\ i < Len(rtl_lines)
  /\ LET st == AnalyzeStep(rtl_lines, [i |-> i, pairs |-> pairs,
                                       active_ifs |-> active_ifs])
     IN  /\ i' = st.i
         /\ pairs' = st.pairs
         /\ active_ifs' = st.active_ifs
  /\ UNCHANGED <<pc, rtl_lines, fixed_lines, self, case_structures, passes, call>>

\* _analyze_if_else_pairing returns the pairs: the for loop of
\* fix_if_else_statements starts
IfElseAnalyzed ==
  /\ pc = "if_else_analyze"
  /\ i >= Len(rtl_lines)
  /\ pc' = "if_else_emit"
  /\ i' = 0
  /\ UNCHANGED <<rtl_lines, fixed_lines, self, locals, passes, call>>

\* one iteration of the for loop of fix_if_else_statements
IfElseEmitIter ==
  /\ pc = "if_else_emit"
  /\ i < Len(rtl_lines)
  /\ LET line == At(rtl_lines, i)
         line_clean == strip(line)
     IN
     IF _is_else_statement(line_clean) \/ _is_else_if_statement(line_clean) THEN
       IF i \in DOMAIN pairs /\ pairs[i].has_matching_if THEN
         /\ fixed_lines' = Append(fixed_lines, line)
         /\ UNCHANGED self
       ELSE IF _is_else_if_statement(line_clean) THEN
         /\ fixed_lines' = Append(fixed_lines, _convert_else_if_to_if(line))
         /\ self' = [self EXCEPT !.if_else_patcher.fixed_count = @ + 1]
       ELSE
         /\ UNCHANGED <<fixed_lines, self>>
     ELSE
       /\ fixed_lines' = Append(fixed_lines, line)
       /\ UNCHANGED self
  /\ i' = i + 1
  /\ UNCHANGED <<pc, rtl_lines, locals, passes, call>>

IfElse_get_summary(ip) ==
  IF ip.fixed_count > 0
  THEN "If-else patch: fixed " \o str_of(ip.fixed_count) \o " statements"
  ELSE "If-else patch: no changes needed"

\* the for loop has ended: fix_if_else_statements returns the fixed lines
IfElseReturn ==
  /\ pc = "if_else_emit"
  /\ i >= Len(rtl_lines)
  /\ rtl_lines' = fixed_lines
  /\ passes' = Append(passes, "if_else")
  /\ self' = Reported(self, IfElse_get_summary(self.if_else_patcher))
  /\ pc' = Continue("call_always")
  /\ UNCHANGED <<fixed_lines, i, locals, call>>

(***************************************************************************)
(* AlwaysBlockPatcher                                                      *)
(***************************************************************************)
\* line[: len(line) - len(line.lstrip())], the _get_indent of the always
\* and generate patchers and of the orchestrator
leading_whitespace(line) == Slice(line, 1, Len(line) - Len(lstrip(line)))

Always_get_indent(line) == leading_whitespace(line)

\* \balways\s*$
bare_always_pattern == <<WordB, Lit("always"), Rep(Space, 0, TRUE), Eol>>

\* \balways\s*\(\s*\)$
always_parens_pattern ==
  <<WordB, Lit("always"), Rep(Space, 0, TRUE), Lit("("), Rep(Space, 0, TRUE),
    Lit(")"), Eol>>

\* \balways\s*@\s*$
always_at_pattern ==
  <<WordB, Lit("always"), Rep(Space, 0, TRUE), Lit("@"), Rep(Space, 0, TRUE), Eol>>

\* \balways\s*@\s*\(\s*\)$
always_at_parens_pattern ==
  <<WordB, Lit("always"), Rep(Space, 0, TRUE), Lit("@"), Rep(Space, 0, TRUE),
    Lit("("), Rep(Space, 0, TRUE), Lit(")"), Eol>>

_is_incomplete_always_block(line_clean) ==
  AnySearch(<<bare_always_pattern, always_parens_pattern, always_at_pattern,
              always_at_parens_pattern>>, line_clean)

\* lines[:n]
FirstLines(lines, n) == SubSeq(lines, 1, Min(n, Len(lines)))

\* input.*?(\w*clk\w*)
input_clock_pattern ==
  <<Lit("input"), Rep(AnyChar, 0, FALSE), Mark, Rep(Word, 0, TRUE), Lit("clk"),
    Rep(Word, 0, TRUE), Mark>>

\* the clock name that the first loop of _detect_clock_signal returns at this
\* line, "" when it goes on to the next line
DeclaredClock(line) ==
  LET declared(line_clean, match) ==
        IF /\ contains(line_clean, "input")
           /\ (contains(line_clean, "clk") \/ contains(line_clean, "clock"))
           /\ match.ok
        THEN Slice(line_clean, match.marks[1], match.marks[2] - 1)
        ELSE ""
  IN  (CHOOSE val \in {(CHOOSE val \in {declared(line_clean, match) :
                    match \in {re_search(input_clock_pattern, line_clean)}} : TRUE) :
              line_clean \in {lower(strip(line))}} : TRUE)

\* the first loop of _detect_clock_signal: the clock name of the first input
\* declaration that has one, "" when no line returns
InputClock(lines) ==
  LET first == CHOOSE k \in 1..(Len(lines) + 1) :
                 /\ k = Len(lines) + 1 \/ DeclaredClock(lines[k]) # ""
                 /\ \A j \in 1..(k - 1) : DeclaredClock(lines[j]) = ""
  IN  (CHOOSE val \in {IF k > Len(lines) THEN "" ELSE DeclaredClock(lines[k]) : k \in {first}} : TRUE)

common_clocks == <<"clk", "clock", "aclk", "pclk">>

\* the second loop of _detect_clock_signal from clock number c on
RECURSIVE EdgeClock(_, _)
EdgeClock(lines, c) ==
  IF c > Len(common_clocks) THEN "clk"
  ELSE IF \E k \in 1..Len(lines) :
            \/ contains(lines[k], "posedge " \o common_clocks[c])
            \/ contains(lines[k], "negedge " \o common_clocks[c])
       THEN common_clocks[c]
       ELSE EdgeClock(lines, c + 1)

_detect_clock_signal(lines) ==
  (CHOOSE val \in {IF declared # "" THEN declared ELSE EdgeClock(FirstLines(lines, 100), 1) :
          declared \in {InputClock(FirstLines(lines, 50))}} : TRUE)

_has_sequential_logic_nearby(lines, line_idx) ==
  \E idx \in Max(0, line_idx - 5)..(Min(Len(lines), line_idx + 5) - 1) :
    contains(At(lines, idx), "<=") /\ ~startswith(strip(At(lines, idx)), "//")

_fix_incomplete_always_block(line, lines, line_idx) ==
  LET line_clean == strip(line)
      indent == Always_get_indent(line)
      clock_signal == _detect_clock_signal(lines)
      has_seq == _has_sequential_logic_nearby(lines, line_idx)
      header == IF has_seq /\ clock_signal # ""
                THEN indent \o "always @(posedge " \o clock_signal \o ") begin\n"
                ELSE indent \o "always @(*) begin\n"
  IN  IF re_found(bare_always_pattern, line_clean) THEN header
      ELSE IF re_found(always_parens_pattern, line_clean)
      THEN replace(line, "always ()", "always @(*)")
      ELSE IF re_found(always_at_pattern, line_clean) THEN header
      ELSE IF re_found(always_at_parens_pattern, line_clean)
      THEN replace(line, "always @()", "always @(*)")
      ELSE IF has_seq /\ clock_signal # ""
      THEN indent \o "always @(posedge " \o clock_signal \o ") begin\n"
      ELSE line

\* fix_always_blocks(rtl_lines) is called; it resets no counter
CallAlways ==
  /\ pc = "call_always"
  /\ pc' = "always"
  /\ i' = 0
  /\ fixed_lines' = <<>>
  /\ UNCHANGED <<rtl_lines, self, locals, passes, call>>

\* one iteration of the while loop of fix_always_blocks
AlwaysIter ==
  /\ pc = "always"
  /\ i < Len(rtl_lines)
  /\ LET line == At(rtl_lines, i)
         line_clean == strip(line)
     IN  IF _is_incomplete_always_block(line_clean)
         THEN /\ fixed_lines' =
                   Append(fixed_lines, _fix_incomplete_always_block(line, rtl_lines, i))
              /\ self' = [self EXCEPT !.always_patcher.incomplete_blocks_fixed = @ + 1]
         ELSE /\ fixed_lines' = Append(fixed_lines, line)
              /\ UNCHANGED self
  /\ i' = i + 1
  /\ UNCHANGED <<pc, rtl_lines, locals, passes, call>>

Always_get_summary(ap) ==
  IF ap.incomplete_blocks_fixed > 0
  THEN "Always patch: fixed " \o str_of(ap.incomplete_blocks_fixed)
         \o " incomplete always blocks"
  ELSE "Always patch: no changes needed"

\* the while loop has ended: fix_always_blocks returns the fixed lines
AlwaysReturn ==
  /\ pc = "always"
  /\ i >= Len(rtl_lines)
  /\ rtl_lines' = fixed_lines
  /\ passes' = Append(passes, "always")
  /\ self' = Reported(self, Always_get_summary(self.always_patcher))
  /\ pc' = Continue("call_generate")
  /\ UNCHANGED <<fixed_lines, i, locals, call>>


(***************************************************************************)
(* AlwaysBlockPatcher.__init__ and the reference file it may load.         *)
(***************************************************************************)
\* no source_file_path was given (None)
NoPath == ""

\* the files a path can name: one that does not exist, one that exists but
\* cannot be opened, and one that can be read
Files ==
  [path \in {"missing.v", "locked.v", "design.v"} |->
     CASE path = "missing.v" -> [exists |-> FALSE, readable |-> FALSE, lines |-> <<>>]
       [] path = "locked.v" ->
            [exists |-> TRUE, readable |-> FALSE,
             lines |-> <<"module m;\n", "always @(*)\n", "begin\n", "  q = d;\n">>]
       [] path = "design.v" ->
            [exists |-> TRUE, readable |-> TRUE,
             lines |-> <<"module m;\n", "always @(*)\n", "begin\n", "  q = d;\n">>]]

\* variant in which the lines of a file that cannot be opened are kept
_load_source_file_unguarded(path) == Files[path].lines

\* self.source_lines after _load_source_file: the lines of the file, or the
\* empty list it had when open or readlines raises and the exception is caught
_load_source_file(path) == IF Files[path].readable THEN Files[path].lines ELSE <<>>

\* the first index in lo..hi whose line satisfies the test, -1 when none does
\* (begin_idx of _extract_source_always_blocks)
BeginIndex(lines, lo, hi) ==
  LET found == {j \in lo..hi : contains(At(lines, j), "begin")}
  IN  IF found = {} THEN -1 ELSE Least(found)

\* the signature lines collected from index k on: at most 3 lines that are
\* not blank, not comments and not `begin`
RECURSIVE Signature(_, _, _, _)
Signature(lines, k, hi, signature_lines) ==
  IF k > hi \/ Len(signature_lines) >= 3 THEN signature_lines
  ELSE LET sig_line == strip(At(lines, k))
       IN  IF sig_line # "" /\ ~startswith(sig_line, "//") /\ sig_line # "begin"
           THEN Signature(lines, k + 1, hi, Append(signature_lines, sig_line))
           ELSE Signature(lines, k + 1, hi, signature_lines)

\* one iteration of the while loop of _extract_source_always_blocks on the
\* locals st = [i, current_module, blocks]; current_module "" is None
ExtractStep(lines, st) ==
  LET line == strip(At(lines, st.i))
      \* module\s+(\w+)
      match == re_match(<<Lit("module"), Rep(Space, 1, TRUE), Mark,
                         Rep(Word, 1, TRUE), Mark>>, line)
      named == startswith(line, "module ") /\ match.ok
      current_module == IF named THEN Slice(line, match.marks[1], match.marks[2] - 1)
                        ELSE st.current_module
      blocks == IF named THEN (current_module :> <<>>) @@ st.blocks ELSE st.blocks
      begin_idx == BeginIndex(lines, st.i + 1, Min(st.i + 5, Len(lines)) - 1)
      block == [always_decl |-> line,
                signature |-> Signature(lines, begin_idx + 1,
                                        Min(begin_idx + 10, Len(lines)) - 1, <<>>),
                line_num |-> st.i]
  IN  [i |-> st.i + 1,
       current_module |-> current_module,
       blocks |-> IF startswith(line, "always") /\ current_module # "" /\ begin_idx # -1
                  THEN [blocks EXCEPT ![current_module] = Append(@, block)]
                  ELSE blocks]

RECURSIVE ExtractFrom(_, _)
ExtractFrom(lines, st) ==
  IF st.i >= Len(lines) THEN st.blocks ELSE ExtractFrom(lines, ExtractStep(lines, st))

\* self.source_always_blocks after _extract_source_always_blocks
_extract_source_always_blocks(source_lines) ==
  ExtractFrom(source_lines, [i |-> 0, current_module |-> "", blocks |-> <<>>])

\* the attributes of AlwaysBlockPatcher(source_file_path)
AlwaysBlockPatcher_init(source_file_path) ==
  LET \* source_file_path and os.path.exists(source_file_path)
      loaded == source_file_path # NoPath /\ Files[source_file_path].exists
      source_lines == IF loaded THEN _load_source_file(source_file_path) ELSE <<>>
  IN  [source_file_path |-> source_file_path,
       source_lines |-> source_lines,
       source_always_blocks |->
         IF loaded THEN _extract_source_always_blocks(source_lines) ELSE <<>>,
       incomplete_blocks_fixed |-> 0]
(***************************************************************************)
(* GenerateBlockPatcher                                                    *)
(***************************************************************************)
Generate_get_indent(line) == leading_whitespace(line)

\* ^\s*begin\s*:\s*(\w+)\s*$
labeled_begin_pattern ==
  <<Rep(Space, 0, TRUE), Lit("begin"), Rep(Space, 0, TRUE), Lit(":"),
    Rep(Space, 0, TRUE), Mark, Rep(Word, 1, TRUE), Mark, Rep(Space, 0, TRUE), Eol>>

_is_orphan_generate_block(line_clean) == re_matched(labeled_begin_pattern, line_clean)

\* ^\s*end\s*;?\s*$
bare_end_pattern ==
  <<Rep(Space, 0, TRUE), Lit("end"), Rep(Space, 0, TRUE), Opt(";"),
    Rep(Space, 0, TRUE), Eol>>

\* the while loop of _collect_single_block: the index of the line that
\* stops the block, len(rtl_lines) when none does
BlockStop(lines, current_idx) ==
  LET stops(k) ==
        \E line_clean \in {strip(At(lines, k))} :
          \/ _is_orphan_generate_block(line_clean)
          \/ AnyStartsWith(<<"endmodule", "module ", "always", "assign">>, line_clean)
          \/ re_matched(bare_end_pattern, line_clean)
  IN  IF current_idx >= Len(lines) THEN current_idx
      ELSE CHOOSE k \in current_idx..Len(lines) :
             /\ k = Len(lines) \/ stops(k)
             /\ \A j \in current_idx..(k - 1) : ~stops(j)

\* None is the record with ok = FALSE
_collect_single_block(lines, start_idx) ==
  IF start_idx >= Len(lines)
  THEN [ok |-> FALSE, label |-> "", start_idx |-> start_idx, end_idx |-> start_idx]
  ELSE LET block(start_line, label_match) ==
             IF ~label_match.ok
             THEN [ok |-> FALSE, label |-> "", start_idx |-> start_idx,
                   end_idx |-> start_idx]
             ELSE [ok |-> TRUE,
                   label |-> Slice(start_line, label_match.marks[1],
                                   label_match.marks[2] - 1),
                   start_idx |-> start_idx,
                   end_idx |-> BlockStop(lines, start_idx + 1) - 1]
       IN  (CHOOSE val \in {(CHOOSE val \in {block(start_line, label_match) :
                         label_match \in {re_match(labeled_begin_pattern, start_line)}} : TRUE) :
                   start_line \in {strip(At(lines, start_idx))}} : TRUE)

\* \[[IiJjKk]\]|\[idx\]|\[index\]
index_patterns ==
  <<  <<Lit("["), One(Of({"I", "i", "J", "j", "K", "k"})), Lit("]")>>,
      <<Lit("[idx]")>>,
      <<Lit("[index]")>>  >>

_block_needs_genvar(block_info, lines) ==
  \E idx \in block_info.start_idx..block_info.end_idx :
    idx < Len(lines) /\ AnySearch(index_patterns, At(lines, idx))

\* the while loop of _collect_orphan_blocks
RECURSIVE OrphanLoop(_, _, _, _)
OrphanLoop(lines, current_idx, blocks, genvar_needed) ==
  IF current_idx >= Len(lines) \/ ~_is_orphan_generate_block(strip(At(lines, current_idx)))
  THEN [blocks |-> blocks, current_idx |-> current_idx, needs_genvar |-> genvar_needed]
  ELSE (CHOOSE val \in {
    IF ~block_info.ok
    THEN [blocks |-> blocks, current_idx |-> current_idx, needs_genvar |-> genvar_needed]
    ELSE OrphanLoop(lines, block_info.end_idx + 1, Append(blocks, block_info),
                    genvar_needed \/ _block_needs_genvar(block_info, lines)) :
    block_info \in {_collect_single_block(lines, current_idx)}} : TRUE)

\* variant that reports the group as ending before its first line
_collect_orphan_blocks_stalled(lines, start_idx) ==
  (CHOOSE val \in {[blocks |-> r.blocks,
         start_idx |-> start_idx,
         end_idx |-> start_idx - 1,
         needs_genvar |-> r.needs_genvar] :
          r \in {OrphanLoop(lines, start_idx, <<>>, FALSE)}} : TRUE)

_collect_orphan_blocks(lines, start_idx) ==
  (CHOOSE val \in {[blocks |-> r.blocks,
         start_idx |-> start_idx,
         end_idx |-> IF Len(r.blocks) > 0 THEN r.current_idx - 1 ELSE start_idx,
         needs_genvar |-> r.needs_genvar] :
          r \in {OrphanLoop(lines, start_idx, <<>>, FALSE)}} : TRUE)

\* parameter\s+(\w+)\s*=\s*(\d+)
parameter_pattern ==
  <<Lit("parameter"), Rep(Space, 1, TRUE), Mark, Rep(Word, 1, TRUE), Mark,
    Rep(Space, 0, TRUE), Lit("="), Rep(Space, 0, TRUE), Rep(Of(Digits), 1, TRUE)>>

\* the parameter name that the loop of _infer_generate_loop_range returns at
\* this line, "" when it goes on to the next line
RangeParameter(line) ==
  LET param_name(line_clean, param_match) ==
        Slice(line_clean, param_match.marks[1], param_match.marks[2] - 1)
      named(line_clean, param_match) ==
        /\ param_match.ok
        /\ \E name \in {lower(param_name(line_clean, param_match))} :
             \E keyword \in {"width", "size", "num", "count"} :
               contains(name, keyword)
  IN  (CHOOSE val \in {(CHOOSE val \in {IF named(line_clean, param_match)
                  THEN param_name(line_clean, param_match)
                  ELSE "" :
                    param_match \in {re_search(parameter_pattern, line_clean)}} : TRUE) :
              line_clean \in {strip(line)}} : TRUE)

_infer_generate_loop_range(blocks_info, lines) ==
  LET first(head) ==
        CHOOSE k \in 1..(Len(head) + 1) :
          /\ k = Len(head) + 1 \/ RangeParameter(head[k]) # ""
          /\ \A j \in 1..(k - 1) : RangeParameter(head[j]) = ""
  IN  (CHOOSE val \in {(CHOOSE val \in {IF k > Len(head) THEN "8" ELSE RangeParameter(head[k]) :
                    k \in {first(head)}} : TRUE) :
              head \in {FirstLines(lines, 100)}} : TRUE)

\* the lines of the blocks, each indented by two blanks
RECURSIVE IndentedBlocks(_, _)
IndentedBlocks(blocks, lines) ==
  IF Len(blocks) = 0 THEN <<>>
  ELSE (CHOOSE val \in {[k \in 1..(Min(block.end_idx, Len(lines) - 1) - block.start_idx + 1) |->
                 "  " \o At(lines, block.start_idx + k - 1)]
               \o IndentedBlocks(Tail(blocks), lines) :
               block \in {Head(blocks)}} : TRUE)

_wrap_with_generate(blocks_info, lines) ==
  (CHOOSE val \in {
      (IF blocks_info.needs_genvar THEN <<base_indent \o "genvar I;\n">> ELSE <<>>)
      \o <<base_indent \o "generate\n">>
      \o (IF blocks_info.needs_genvar
          THEN <<base_indent \o "  for (I = 0; I < "
                   \o _infer_generate_loop_range(blocks_info, lines)
                   \o "; I = I + 1) begin\n">>
          ELSE <<>>)
      \o IndentedBlocks(blocks_info.blocks, lines)
      \o (IF blocks_info.needs_genvar THEN <<base_indent \o "  end\n">> ELSE <<>>)
      \o <<base_indent \o "endgenerate\n">> :
    base_indent \in {Generate_get_indent(At(lines, blocks_info.start_idx))}} : TRUE)

\* fix_generate_blocks(rtl_lines) is called; it resets no counter
CallGenerate ==
  /\ pc = "call_generate"
  /\ pc' = "generate"
  /\ i' = 0
  /\ fixed_lines' = <<>>
  /\ UNCHANGED <<rtl_lines, self, locals, passes, call>>

\* one iteration of the while loop of fix_generate_blocks
GenerateIter ==
  /\ pc = "generate"
  /\ i < Len(rtl_lines)
  /\ \E line \in {At(rtl_lines, i)}, blocks_info \in {_collect_orphan_blocks(rtl_lines, i)} :
         IF _is_orphan_generate_block(strip(line)) /\ Len(blocks_info.blocks) > 0
         THEN /\ fixed_lines' = fixed_lines \o _wrap_with_generate(blocks_info, rtl_lines)
              /\ i' = blocks_info.end_idx + 1
              /\ self' = [self EXCEPT
                   !.generate_patcher.orphan_blocks_fixed = @ + Len(blocks_info.blocks),
                   !.generate_patcher.missing_genvar_added =
                       IF blocks_info.needs_genvar THEN @ + 1 ELSE @]
         ELSE /\ fixed_lines' = Append(fixed_lines, line)
              /\ i' = i + 1
              /\ UNCHANGED self
  /\ UNCHANGED <<pc, rtl_lines, locals, passes, call>>

Generate_get_summary(gp) ==
  LET summary_parts ==
        (IF gp.orphan_blocks_fixed > 0
         THEN <<"wrapped " \o str_of(gp.orphan_blocks_fixed) \o " orphan blocks">>
         ELSE <<>>)
        \o (IF gp.missing_genvar_added > 0
            THEN <<"added " \o str_of(gp.missing_genvar_added) \o " genvar declarations">>
            ELSE <<>>)
  IN  IF Len(summary_parts) > 0
      THEN "Generate patch: " \o join_with(summary_parts, ", ")
      ELSE "Generate patch: no changes needed"

\* the while loop has ended: fix_generate_blocks returns the fixed lines
GenerateReturn ==
  /\ pc = "generate"
  /\ i >= Len(rtl_lines)
  /\ rtl_lines' = fixed_lines
  /\ passes' = Append(passes, "generate")
  /\ self' = Reported(self, Generate_get_summary(self.generate_patcher))
  /\ pc' = Continue("call_cleanup")
  /\ UNCHANGED <<fixed_lines, i, locals, call>>

(***************************************************************************)
(* SyntaxErrorPatcher: the cleanup pass and fix_all_syntax_errors          *)
(***************************************************************************)
Orchestrator_get_indent(line) == leading_whitespace(line)

\* ^\s*[&|^~]\s*$  ^\s*[+\-*/]\s*$  ^\s*[<>=!]\s*$  ^\s*[{}]\s*$  ^\s*:\s*$  ^\s*\?\s*$
orphan_patterns ==
  <<  <<Rep(Space, 0, TRUE), One(Of({"&", "|", "^", "~"})), Rep(Space, 0, TRUE), Eol>>,
      <<Rep(Space, 0, TRUE), One(Of({"+", "-", "*", "/"})), Rep(Space, 0, TRUE), Eol>>,
      <<Rep(Space, 0, TRUE), One(Of({"<", ">", "=", "!"})), Rep(Space, 0, TRUE), Eol>>,
      <<Rep(Space, 0, TRUE), One(Of({"{", "}"})), Rep(Space, 0, TRUE), Eol>>,
      <<Rep(Space, 0, TRUE), Lit(":"), Rep(Space, 0, TRUE), Eol>>,
      <<Rep(Space, 0, TRUE), Lit("?"), Rep(Space, 0, TRUE), Eol>>  >>

_is_obvious_orphan_operator(line_clean) ==
  IF line_clean = "" THEN FALSE ELSE AnyMatch(orphan_patterns, line_clean)

\* lines[-n:]
LastLines(lines, n) == SubSeq(lines, Max(1, Len(lines) - n + 1), Len(lines))

_needs_genvar_declaration(line_clean, previous_lines) ==
  IF contains(line_clean, "genvar") /\ ~contains(line_clean, "generate")
  THEN \A k \in 1..Len(LastLines(previous_lines, 20)) :
         ~contains(strip(LastLines(previous_lines, 20)[k]), "genvar")
  ELSE FALSE

_create_genvar_declaration(line) == Orchestrator_get_indent(line) \o "genvar i;\n"

\* step 6 of fix_all_syntax_errors: _conservative_cleanup(rtl_lines) is called
CallCleanup ==
  /\ pc = "call_cleanup"
  /\ pc' = "cleanup"
  /\ i' = 0
  /\ fixed_lines' = <<>>
  /\ UNCHANGED <<rtl_lines, self, locals, passes, call>>

\* one iteration of the for loop of _conservative_cleanup; fixed_lines is
\* its cleaned_lines
CleanupIter ==
  /\ pc = "cleanup"
  /\ i < Len(rtl_lines)
  /\ LET line == At(rtl_lines, i)
         line_clean == strip(line)
     IN  IF _is_obvious_orphan_operator(line_clean)
         THEN UNCHANGED fixed_lines
         ELSE IF _needs_genvar_declaration(line_clean, fixed_lines)
         THEN fixed_lines' = fixed_lines \o <<_create_genvar_declaration(line), line>>
         ELSE fixed_lines' = Append(fixed_lines, line)
  /\ i' = i + 1
  /\ UNCHANGED <<pc, rtl_lines, self, locals, passes, call>>

\* the for loop has ended: _conservative_cleanup returns the cleaned lines
\* and fix_all_syntax_errors returns them
CleanupReturn ==
  /\ pc = "cleanup"
  /\ i >= Len(rtl_lines)
  /\ rtl_lines' = fixed_lines
  /\ passes' = Append(passes, "cleanup")
  /\ pc' = "done"
  /\ UNCHANGED <<fixed_lines, i, self, locals, call>>

get_total_summary(obj) == "Syntax patch: fixed " \o str_of(obj.total_fixes) \o " issues"

(***************************************************************************)
(* Calls.  Each specification starts from freshly constructed patchers     *)
(* and one call of a public method on a bounded input.                     *)
(***************************************************************************)
MaxLines == 3

\* all line sequences of at most n lines drawn from the set L
RECURSIVE SeqsUpTo(_, _)
SeqsUpTo(L, n) ==
  IF n = 0 THEN {<<>>}
  ELSE LET shorter == SeqsUpTo(L, n - 1)
       IN  shorter \cup {Append(t, l) : t \in {u \in shorter : Len(u) = n - 1}, l \in L}

\* the state after the five patchers are constructed, the always patcher as
\* AlwaysBlockPatcher(source_file_path)
ConstructedWith(source_file_path) ==
  /\ self = [assign_patcher |-> [fixed_count |-> 0, merged_count |-> 0],
             case_patcher |-> [case_stack |-> <<>>, fixed_count |-> 0,
                               removed_count |-> 0],
             if_else_patcher |-> [fixed_count |-> 0],
             always_patcher |-> AlwaysBlockPatcher_init(source_file_path),
             generate_patcher |-> [orphan_blocks_fixed |-> 0,
                                   missing_genvar_added |-> 0],
             total_fixes |-> 0]
  /\ fixed_lines = <<>>
  /\ i = 0
  /\ case_structures = <<>>
  /\ pairs = <<>>
  /\ active_ifs = <<>>
  /\ passes = <<>>
  /\ calls = 1
  /\ fixes_at_call = 0

\* the state after SyntaxErrorPatcher() and the five patchers are constructed
Constructed == ConstructedWith(NoPath)

AssignLines ==
  {"assign a = b;\n", "assign a = b\n", "assign y = s ?\n", "  | c\n",
   "assign v = b[1:0];\n", "assign a = b assign c = d\n", "? c\n", "x =\n",
   "// n\n", "wire w;\n"}

InitAssign ==
  /\ Constructed
  /\ entry = "fix_assign_statements"
  /\ input \in SeqsUpTo(AssignLines, MaxLines)
  /\ rtl_lines = input
  /\ pc = "call_assign"

NextAssign == CallAssign \/ AssignIter \/ AssignReturn

SpecAssign == InitAssign /\ [][NextAssign]_vars

CaseLines ==
  {"case (s)\n", "  case (t)\n", "endcase\n", "  default:\n", "  1: y = 0;\n",
   "end\n", "    x = 1;\n", "  {a}:\n"}

InitCase ==
  /\ Constructed
  /\ entry = "fix_case_statements"
  /\ input \in SeqsUpTo(CaseLines, MaxLines)
  /\ rtl_lines = input
  /\ pc = "call_case"

NextCase ==
  CallCase \/ CaseIdentifyIter \/ CaseRemoveEmpty \/ CaseFixIter \/ CaseFlush
    \/ CaseReturn

SpecCase == InitCase /\ [][NextCase]_vars

MaxIfElseLines == 4

IfElseLines ==
  {"if (a)\n", "begin\n", "end else\n", "else\n", "else if (b)\n", "  x;\n"}

InitIfElse ==
  /\ Constructed
  /\ entry = "fix_if_else_statements"
  /\ input \in SeqsUpTo(IfElseLines, MaxIfElseLines)
  /\ rtl_lines = input
  /\ pc = "call_if_else"

NextIfElse ==
  CallIfElse \/ IfElseAnalyzeIter \/ IfElseAnalyzed \/ IfElseEmitIter
    \/ IfElseReturn

SpecIfElse == InitIfElse /\ [][NextIfElse]_vars

AlwaysLines ==
  {"always\n", "always@()\n", "always @()\n", "  always ()\n", "always @\n",
   "  q <= d;\n", "input clk;\n", "// q <= d;\n"}

InitAlways ==
  /\ Constructed
  /\ entry = "fix_always_blocks"
  /\ input \in SeqsUpTo(AlwaysLines, MaxLines)
  /\ rtl_lines = input
  /\ pc = "call_always"

NextAlways == CallAlways \/ AlwaysIter \/ AlwaysReturn

SpecAlways == InitAlways /\ [][NextAlways]_vars

MaxGenerateLines == 5

GenerateLines ==
  {"begin : g\n", "  x[i] = 1;\n", "end\n", "parameter WIDTH = 4;\n", "  y = 0;\n"}

InitGenerate ==
  /\ Constructed
  /\ entry = "fix_generate_blocks"
  /\ input \in SeqsUpTo(GenerateLines, MaxGenerateLines)
  /\ rtl_lines = input
  /\ pc = "call_generate"

NextGenerate == CallGenerate \/ GenerateIter \/ GenerateReturn

SpecGenerate == InitGenerate /\ [][NextGenerate]_vars

MaxPipelineLines == 2

MaxCalls == 2

PipelineLines ==
  {"assign a = b\n", "case (s)\n", "else if (x)\n", "always\n", "begin : g\n",
   "genvar i;\n", "  x[i] <= 1;\n", "|\n", "end\n", "endcase\n"}

\* fix_all_syntax_errors(input) is called on a fresh SyntaxErrorPatcher
InitPipeline ==
  /\ Constructed
  /\ entry = "fix_all_syntax_errors"
  /\ input \in SeqsUpTo(PipelineLines, MaxPipelineLines)
  /\ rtl_lines = input
  /\ pc = "call_assign"

\* fix_all_syntax_errors is called again, on the same object, with the line
\* list that the previous call returned
Rerun ==
  /\ pc = "done"
  /\ entry = "fix_all_syntax_errors"
  /\ calls < MaxCalls
  /\ calls' = calls + 1
  /\ input' = rtl_lines
  /\ fixes_at_call' = self.total_fixes
  /\ passes' = <<>>
  /\ pc' = "call_assign"
  /\ UNCHANGED <<entry, rtl_lines, fixed_lines, i, self, locals>>

NextPipeline ==
  \/ CallAssign \/ AssignIter \/ AssignReturn
  \/ CallCase \/ CaseIdentifyIter \/ CaseRemoveEmpty \/ CaseFixIter \/ CaseFlush
  \/ CaseReturn
  \/ CallIfElse \/ IfElseAnalyzeIter \/ IfElseAnalyzed \/ IfElseEmitIter
  \/ IfElseReturn
  \/ CallAlways \/ AlwaysIter \/ AlwaysReturn
  \/ CallGenerate \/ GenerateIter \/ GenerateReturn
  \/ CallCleanup \/ CleanupIter \/ CleanupReturn
  \/ Rerun

SpecPipeline == InitPipeline /\ [][NextPipeline]_vars

\* the pipeline never waits: a step that can be taken is taken
FairPipeline == SpecPipeline /\ WF_vars(NextPipeline)

Init == InitPipeline

Next == NextPipeline

Spec == SpecPipeline


(***************************************************************************)
(* Further calls of single patchers, on the inputs of the documented       *)
(* examples.                                                               *)
(***************************************************************************)
MaxFoldLines == 4

\* the lines of the multi-line assign of demo_assign_template, shortened
FoldLines ==
  {"assign a =\n", "  (sel) ?\n", "  1'b1 :\n", "  1'b0\n", "  b;\n", "wire w;\n"}

InitFold ==
  /\ Constructed
  /\ entry = "fix_assign_statements"
  /\ input \in SeqsUpTo(FoldLines, MaxFoldLines)
  /\ rtl_lines = input
  /\ pc = "call_assign"

SpecFold == InitFold /\ [][NextAssign]_vars

MaxWindowLines == 6

\* a bare header and a non-blocking assignment at any distance from it
WindowLines == {"always\n", "  q <= d;\n", "\n"}

InitWindow ==
  /\ Constructed
  /\ entry = "fix_always_blocks"
  /\ input \in SeqsUpTo(WindowLines, MaxWindowLines)
  /\ rtl_lines = input
  /\ pc = "call_always"

SpecWindow == InitWindow /\ [][NextAlways]_vars

MaxBlockLines == 6

\* two labeled blocks with an indexed body, after an optional parameter
BlockLines == {"begin : blk0\n", "begin : blk1\n", "  x[i] = 1;\n", "end\n"}

InitBlocks ==
  /\ Constructed
  /\ entry = "fix_generate_blocks"
  /\ input \in {declared \o blocks :
                  declared \in {<<>>, <<"parameter WIDTH = 4;\n">>},
                  blocks \in SeqsUpTo(BlockLines, MaxBlockLines)}
  /\ rtl_lines = input
  /\ pc = "call_generate"

SpecBlocks == InitBlocks /\ [][NextGenerate]_vars

MaxOpenCaseLines == 4

\* cases that are never closed and terminating lines at several indentations
OpenCaseLines == {"case (s)\n", "  case (t)\n", "end\n", "  end\n", "    x = 1;\n"}

InitOpenCase ==
  /\ Constructed
  /\ entry = "fix_case_statements"
  /\ input \in SeqsUpTo(OpenCaseLines, MaxOpenCaseLines)
  /\ rtl_lines = input
  /\ pc = "call_case"

SpecOpenCase == InitOpenCase /\ [][NextCase]_vars

\* the paths AlwaysBlockPatcher is constructed with
SourcePaths == {NoPath} \cup DOMAIN Files

\* fix_always_blocks(input) is called on AlwaysBlockPatcher(source_file_path)
InitSource ==
  /\ \E source_file_path \in SourcePaths : ConstructedWith(source_file_path)
  /\ entry = "fix_always_blocks"
  /\ input \in SeqsUpTo(AlwaysLines, MaxLines)
  /\ rtl_lines = input
  /\ pc = "call_always"

SpecSource == InitSource /\ [][NextAlways]_vars

MaxPairedLines == 5

\* an if with a begin ... end body and the else that continues it
PairedLines == {"if (a) begin\n", "  x;\n", "end\n", "else\n", "end else\n"}

InitPaired ==
  /\ Constructed
  /\ entry = "fix_if_else_statements"
  /\ input \in SeqsUpTo(PairedLines, MaxPairedLines)
  /\ rtl_lines = input
  /\ pc = "call_if_else"

SpecPaired == InitPaired /\ [][NextIfElse]_vars

MaxClosedCaseLines == 4

\* closed cases whose inner lines stand at the indentation of the case
ClosedCaseLines == {"case (s)\n", "if (a) y = 1;\n", "  1: y = 0;\n", "endcase\n"}

InitClosedCase ==
  /\ Constructed
  /\ entry = "fix_case_statements"
  /\ input \in SeqsUpTo(ClosedCaseLines, MaxClosedCaseLines)
  /\ rtl_lines = input
  /\ pc = "call_case"

SpecClosedCase == InitClosedCase /\ [][NextCase]_vars

MaxLabelLines == 4

\* case regions whose interior lines are labels, with and without a statement
LabelLines ==
  {"case (s)\n", "  default: y = 0;\n", "  default:\n", "  1: y = 0;\n", "endcase\n"}

InitLabels ==
  /\ Constructed
  /\ entry = "fix_case_statements"
  /\ input \in SeqsUpTo(LabelLines, MaxLabelLines)
  /\ rtl_lines = input
  /\ pc = "call_case"

SpecLabels == InitLabels /\ [][NextCase]_vars

MaxDanglingLines == 4

\* an else with no if before it, with the statement or the block it governs
DanglingLines == {"else\n", "else begin\n", "  x;\n", "end\n", "if (a)\n"}

InitDangling ==
  /\ Constructed
  /\ entry = "fix_if_else_statements"
  /\ input \in SeqsUpTo(DanglingLines, MaxDanglingLines)
  /\ rtl_lines = input
  /\ pc = "call_if_else"

SpecDangling == InitDangling /\ [][NextIfElse]_vars

MaxOperatorLines == 2

\* assign statements whose expression has a two-character operator
OperatorLines ==
  {"assign y = a <= b;\n", "assign y = a < = b;\n", "assign y = a != b;\n",
   "assign y = a == b;\n", "assign y = a >= b\n", "wire w;\n"}

InitOperators ==
  /\ Constructed
  /\ entry = "fix_assign_statements"
  /\ input \in SeqsUpTo(OperatorLines, MaxOperatorLines)
  /\ rtl_lines = input
  /\ pc = "call_assign"

SpecOperators == InitOperators /\ [][NextAssign]_vars

MaxRegionLines == 4

\* a labeled block inside and outside of a generate region
RegionLines ==
  {"generate\n", "  begin : g\n", "  end\n", "endgenerate\n", "  y = 0;\n"}

InitRegion ==
  /\ Constructed
  /\ entry = "fix_generate_blocks"
  /\ input \in SeqsUpTo(RegionLines, MaxRegionLines)
  /\ rtl_lines = input
  /\ pc = "call_generate"

SpecRegion == InitRegion /\ [][NextGenerate]_vars

MaxCommentLines == 3

\* always blocks whose comments and closing lines name the keyword
CommentLines ==
  {"always\n", "always @(posedge clk) begin\n", "  q <= d;\n", "end // always\n",
   "// always @\n"}

InitComments ==
  /\ Constructed
  /\ entry = "fix_always_blocks"
  /\ input \in SeqsUpTo(CommentLines, MaxCommentLines)
  /\ rtl_lines = input
  /\ pc = "call_always"

SpecComments == InitComments /\ [][NextAlways]_vars

MaxFrameLines == 3

\* assign statements among comments, blank lines and a case label
FrameLines ==
  {"assign a = b\n", "assign a = b;\n", "// n\n", "\n", "  default:\n", "wire w;\n"}

InitFrame ==
  /\ Constructed
  /\ entry = "fix_assign_statements"
  /\ input \in SeqsUpTo(FrameLines, MaxFrameLines)
  /\ rtl_lines = input
  /\ pc = "call_assign"

SpecFrame == InitFrame /\ [][NextAssign]_vars
(***************************************************************************)
(* Properties of the assign pass (SpecAssign).                             *)
(***************************************************************************)
AssignOutput == entry = "fix_assign_statements" /\ pc = "done"

\* C1: in every output of fix_assign_statements, each line that starts with
\* `assign` ends with the terminator `;`, also when it was folded from
\* several lines, split off a concatenated statement, or had an orphan
\* operator line merged into it.
AssignEndsWithTerminator ==
  AssignOutput =>
    \A k \in 1..Len(rtl_lines) :
      startswith(strip(rtl_lines[k]), "assign") => endswith(strip(rtl_lines[k]), ";")

\* the assign statements that the step from this state to the next emits
EmittedAssigns ==
  {fixed_lines'[k] : k \in
     {n \in (Len(fixed_lines) + 1)..Len(fixed_lines') :
        _is_assign_start(strip(fixed_lines'[n]))}}

CaseOutput == entry = "fix_case_statements" /\ pc = "done"

CaseOpenings(lines) ==
  {k \in 1..Len(lines) : re_found(case_pattern, strip(lines[k]))}

CaseClosings(lines) == {k \in 1..Len(lines) : is_endcase(strip(lines[k]))}

EmptyRegions(lines) ==
  {k \in 1..Len(_identify_case_structures(lines)) :
     _is_empty_case_structure(lines, _identify_case_structures(lines)[k])}

\* C3: in every output of fix_case_statements the number of lines that open
\* a case equals the number of endcase lines, and no case-to-endcase region
\* that is empty remains.
CaseClosure ==
  CaseOutput =>
    /\ Cardinality(CaseOpenings(rtl_lines)) = Cardinality(CaseClosings(rtl_lines))
    /\ EmptyRegions(rtl_lines) = {}


(***************************************************************************)
(* Properties of the if-else pass (SpecIfElse).                            *)
(***************************************************************************)
IfElseOutput == entry = "fix_if_else_statements" /\ pc = "done"

\* the 0-based indices of the else / else-if lines
ElseLines(lines) ==
  {e \in 0..(Len(lines) - 1) :
     \/ _is_else_statement(strip(At(lines, e)))
     \/ _is_else_if_statement(strip(At(lines, e)))}

\* the pairing rule: line k is an if (or an else if) of the same indentation
\* whose block ends strictly before line e and at most 5 lines before it
Justifies(lines, k, e) ==
  /\ k < e
  /\ \/ _is_if_statement(strip(At(lines, k)))
     \/ _is_else_if_statement(strip(At(lines, k)))
  /\ Len(IfElse_get_indent(At(lines, k))) = Len(IfElse_get_indent(At(lines, e)))
  /\ _find_if_block_end(lines, k) < e
  /\ e <= _find_if_block_end(lines, k) + 5

\* C4: in every output of fix_if_else_statements every else / else-if line
\* has a preceding if (or else if) that satisfies the pairing rule for it and
\* is claimed by no other else: the else lines can be assigned to distinct
\* justifying ifs.
IfElseSoundness ==
  IfElseOutput =>
    \E f \in [ElseLines(rtl_lines) -> 0..(Len(rtl_lines) - 1)] :
      /\ \A e \in ElseLines(rtl_lines) : Justifies(rtl_lines, f[e], e)
      /\ \A d, e \in ElseLines(rtl_lines) : d # e => f[d] # f[e]

(***************************************************************************)
(* Properties of the always pass (SpecAlways).                             *)
(***************************************************************************)
AlwaysOutput == entry = "fix_always_blocks" /\ pc = "done"

\* C5: in every output of fix_always_blocks no line is an incomplete always
\* header: each of the four detected forms, written with or without spaces
\* between the tokens, has been replaced by a header with an event control.
AlwaysHeadersComplete ==
  AlwaysOutput =>
    \A k \in 1..Len(rtl_lines) : ~_is_incomplete_always_block(strip(rtl_lines[k]))

(***************************************************************************)
(* Properties of the generate pass (SpecGenerate).                         *)
(***************************************************************************)
GenerateOutput == entry = "fix_generate_blocks" /\ pc = "done"

Opens(line) ==
  _is_orphan_generate_block(strip(line)) \/ endswith(strip(line), "begin")

Closes(line) == re_matched(bare_end_pattern, strip(line))

\* the line that closes the block opened just before line k, at nesting
\* depth `depth`: 0 when the lines end before the block is closed
RECURSIVE ClosingEnd(_, _, _)
ClosingEnd(lines, k, depth) ==
  IF k > Len(lines) THEN 0
  ELSE IF Closes(lines[k])
       THEN (IF depth = 1 THEN k ELSE ClosingEnd(lines, k + 1, depth - 1))
  ELSE IF Opens(lines[k]) THEN ClosingEnd(lines, k + 1, depth + 1)
  ELSE ClosingEnd(lines, k + 1, depth)

\* lines k..c lie between a generate line and its endgenerate line
InsideGenerate(lines, k, c) ==
  \E g \in 1..(k - 1) :
    /\ strip(lines[g]) = "generate"
    /\ \A m \in g..c : strip(lines[m]) # "endgenerate"
    /\ \E e \in (c + 1)..Len(lines) : strip(lines[e]) = "endgenerate"

\* C6: in every output of fix_generate_blocks each labeled block lies, from
\* its `begin : <label>` line through its closing `end` line, between a
\* generate line and the matching endgenerate line.
OrphanBlocksWrapped ==
  GenerateOutput =>
    \A k \in 1..Len(rtl_lines) :
      _is_orphan_generate_block(strip(rtl_lines[k])) =>
        LET c == ClosingEnd(rtl_lines, k + 1, 1)
        IN  InsideGenerate(rtl_lines, k, IF c = 0 THEN k ELSE c)

SynthesizedLoops(lines) ==
  {k \in 1..Len(lines) : startswith(strip(lines[k]), "for (I = 0; I < ")}

GenvarDeclarations(lines) ==
  {k \in 1..Len(lines) : startswith(strip(lines[k]), "genvar ")}

\* C7: in every output of fix_generate_blocks that contains a synthesized
\* for-loop, the loop index is declared by exactly one genvar declaration in
\* the whole output, also when several orphan groups each need a loop.
GenvarDeclaredOnce ==
  GenerateOutput =>
    (SynthesizedLoops(rtl_lines) # {} =>
       Cardinality(GenvarDeclarations(rtl_lines)) = 1)

(***************************************************************************)
(* Properties of the whole pipeline (SpecPipeline).                        *)
(***************************************************************************)
PipelineOutput == entry = "fix_all_syntax_errors" /\ pc = "done"

\* C8: running fix_all_syntax_errors on its own output returns that output
\* unchanged and reports zero fixes.
PipelineIdempotent ==
  (PipelineOutput /\ calls = 2) =>
    /\ rtl_lines = input
    /\ self.total_fixes = fixes_at_call

PassNames == <<"assign", "case", "if_else", "always", "generate", "cleanup">>

\* C9: fix_all_syntax_errors applies the passes assign, case, if-else,
\* always, generate, cleanup in this order, each exactly once; a pass that
\* ends hands its complete output to the next pass, which starts from it,
\* and the value returned is the output of the cleanup pass.
PassOrder ==
  [][entry = "fix_all_syntax_errors" =>
       /\ Len(passes') > Len(passes) =>
            /\ Len(passes') <= Len(PassNames)
            /\ passes' = SubSeq(PassNames, 1, Len(passes) + 1)
            /\ rtl_lines' = fixed_lines
       /\ pc \in {"call_assign", "call_case", "call_if_else", "call_always",
                  "call_generate", "call_cleanup"} =>
            /\ rtl_lines' = rtl_lines
            /\ passes' = passes
            /\ pc' = PassNames[Len(passes) + 1]
                 \/ (pc = "call_case" /\ pc' = "case_identify")
                 \/ (pc = "call_if_else" /\ pc' = "if_else_analyze")
       /\ (pc # "done" /\ pc' = "done") =>
            /\ passes' = PassNames
            /\ rtl_lines' = fixed_lines
  ]_vars

\* the pipeline has returned lines that differ from the ones it was given
PipelineRepaired ==
  /\ PipelineOutput
  /\ calls = 1
  /\ passes = PassNames
  /\ Len(input) = MaxPipelineLines
  /\ rtl_lines # input

ScanLoops ==
  {"assign", "case_identify", "case_fix", "if_else_analyze", "if_else_emit",
   "always", "generate", "cleanup"}

\* C10: for every input, fix_all_syntax_errors terminates and returns a line
\* sequence: each iteration of a scanning loop advances the index by at
\* least one line (the loop that closes the cases left open at the end of
\* the input removes one of them instead), and every call that starts ends.
PipelineTerminates ==
  /\ [][(pc \in ScanLoops /\ pc' = pc) =>
          \/ i' >= i + 1
          \/ /\ pc = "case_fix" /\ i >= Len(rtl_lines)
             /\ Len(self'.case_patcher.case_stack) < Len(self.case_patcher.case_stack)
       ]_vars
  /\ (pc = "call_assign") ~> (PipelineOutput /\ passes = PassNames)

\* a call given a case that is never closed and a truncated assign has
\* returned
UnbalancedInputReturned ==
  /\ PipelineOutput
  /\ input = <<"case (s)\n", "assign a = b\n">>

(***************************************************************************)
(* Properties of the repair statistics (SpecPipeline).                     *)
(***************************************************************************)
\* the repairs the five patchers have counted
RepairsMade(obj) ==
  obj.assign_patcher.fixed_count + obj.assign_patcher.merged_count
    + obj.case_patcher.removed_count + obj.case_patcher.fixed_count
    + obj.if_else_patcher.fixed_count
    + obj.always_patcher.incomplete_blocks_fixed
    + obj.generate_patcher.orphan_blocks_fixed
    + obj.generate_patcher.missing_genvar_added

\* C11: after one run of fix_all_syntax_errors on a fresh orchestrator the
\* aggregate fix count equals the sum of the repairs made in that run by the
\* five passes; a run in which only the case pass or only the generate pass
\* repaired something reports a non-zero aggregate.
AggregateIsSumOfRepairs ==
  (PipelineOutput /\ calls = 1) => self.total_fixes = RepairsMade(self)

\* the counters of the five patchers and the aggregate, as a fresh
\* orchestrator holds them
FreshCounters(obj) ==
  /\ obj.assign_patcher.fixed_count = 0
  /\ obj.assign_patcher.merged_count = 0
  /\ obj.case_patcher.removed_count = 0
  /\ obj.case_patcher.fixed_count = 0
  /\ obj.if_else_patcher.fixed_count = 0
  /\ obj.always_patcher.incomplete_blocks_fixed = 0
  /\ obj.generate_patcher.orphan_blocks_fixed = 0
  /\ obj.generate_patcher.missing_genvar_added = 0
  /\ obj.total_fixes = 0

\* C12: the statistics are per run: what is reported for the last call is
\* what a fresh orchestrator reports for that call's input.  The lines a pass
\* emits do not depend on the counters and the counters only grow, so this
\* holds exactly when every pass of every call starts its scan with its own
\* counters at zero and every call starts with the aggregate at zero.
StatisticsPerRun ==
  [][/\ (pc = "call_assign" /\ pc' = "assign") =>
          /\ self'.total_fixes = 0
          /\ self'.assign_patcher.fixed_count = 0
          /\ self'.assign_patcher.merged_count = 0
     /\ (pc = "call_case" /\ pc' = "case_identify") =>
          /\ self'.case_patcher.removed_count = 0
          /\ self'.case_patcher.fixed_count = 0
     /\ (pc = "call_if_else" /\ pc' = "if_else_analyze") =>
          self'.if_else_patcher.fixed_count = 0
     /\ (pc = "call_always" /\ pc' = "always") =>
          self'.always_patcher.incomplete_blocks_fixed = 0
     /\ (pc = "call_generate" /\ pc' = "generate") =>
          /\ self'.generate_patcher.orphan_blocks_fixed = 0
          /\ self'.generate_patcher.missing_genvar_added = 0
  ]_vars

(***************************************************************************)
(* Properties of the documented repairs.                                   *)
(***************************************************************************)
\* the input starts with an assign line that is not terminated
StartsUnterminated(lines) ==
  /\ Len(lines) >= 1
  /\ _is_assign_start(strip(lines[1]))
  /\ ~endswith(strip(lines[1]), ";")

\* the last line that belongs to the statement that starts on line 1: the
\* first later line that ends in `;`, or the line before the next line that
\* starts a new statement, or the last line
LastFolded(lines) ==
  LET stops(k) == \/ _is_new_statement_start(strip(lines[k]))
                  \/ endswith(strip(lines[k]), ";")
      stop == CHOOSE k \in 2..(Len(lines) + 1) :
                /\ k = Len(lines) + 1 \/ stops(k)
                /\ \A j \in 2..(k - 1) : ~stops(j)
  IN  IF stop <= Len(lines) /\ ~_is_new_statement_start(strip(lines[stop]))
      THEN stop ELSE stop - 1

\* the trimmed lines 1..n joined by single spaces, terminated by `;` and by a
\* newline
FoldedLine(lines, n) ==
  LET joined == join_with([k \in 1..n |-> strip(lines[k])], " ")
  IN  (IF endswith(joined, ";") THEN joined ELSE joined \o ";") \o "\n"

\* C13: fix_assign_statements folds an unterminated assign line and its
\* continuation lines (at least one) into exactly one output line, the trimmed parts joined
\* by single spaces and terminated by `;` and by a newline, and does not emit
\* the consumed lines separately.
AssignFolded ==
  (AssignOutput /\ StartsUnterminated(input) /\ LastFolded(input) >= 2) =>
    /\ Len(rtl_lines) >= 1
    /\ rtl_lines[1] = FoldedLine(input, LastFolded(input))
    /\ Len(rtl_lines) <= 1 + Len(input) - LastFolded(input)

\* no line of `lines` can be paired with the else / else-if on line e
Unpairable(lines, e) == \A k \in 0..(e - 1) : ~Justifies(lines, k, e)

BareHeader(line) == strip(line) \in {"always", "always@", "always @"}

\* some non-comment line at most 5 lines before or after line k holds `<=`
AssignsNearby(lines, k) ==
  \E j \in 1..Len(lines) :
    /\ j - k <= 5 /\ k - j <= 5
    /\ contains(lines[j], "<=")
    /\ ~startswith(strip(lines[j]), "//")

\* C15: for a bare `always` or `always@` header fix_always_blocks emits, at
\* the header's indentation, `always @(posedge <clock>) begin` when a
\* non-comment line at most 5 lines before or after the header contains `<=`
\* and `always @(*) begin` otherwise; <clock> is the detected clock name.
BareHeaderInferred ==
  AlwaysOutput =>
    /\ Len(rtl_lines) = Len(input)
    /\ \A k \in 1..Len(input) :
         BareHeader(input[k]) =>
           rtl_lines[k] =
             Always_get_indent(input[k])
               \o (IF AssignsNearby(input, k)
                   THEN "always @(posedge " \o _detect_clock_signal(input) \o ") begin\n"
                   ELSE "always @(*) begin\n")

\* lines a..b are one labeled block: a labeled begin, one or more body lines
\* that index [i], and the closing end on line b
LabeledBlock(lines, a, b) ==
  /\ a + 2 <= b /\ b <= Len(lines)
  /\ _is_orphan_generate_block(strip(lines[a]))
  /\ \A k \in (a + 1)..(b - 1) : contains(lines[k], "[i]")
  /\ strip(lines[b]) = "end"

\* the lines after the first `skip` ones are two consecutive labeled blocks
TwoBlocks(lines, skip) ==
  \E m \in (skip + 1)..Len(lines) :
    LabeledBlock(lines, skip + 1, m) /\ LabeledBlock(lines, m + 1, Len(lines))

Stripped(lines) == [k \in 1..Len(lines) |-> strip(lines[k])]

\* the region the two blocks are wrapped in, with the loop bound `range`
WrappedRegion(blocks, range) ==
  <<"genvar i;", "generate", "for (i = 0; i < " \o range \o "; i = i + 1) begin">>
    \o Stripped(blocks) \o <<"end", "endgenerate">>

\* C16: two consecutive orphan labeled blocks whose bodies index [i] are
\* wrapped together in one region: one genvar declaration of the index, the
\* generate line, one for header bounded by WIDTH when `parameter WIDTH = 4`
\* is declared earlier and by 8 otherwise, both blocks, the loop end and the
\* endgenerate line.
BlocksWrappedTogether ==
  GenerateOutput =>
    /\ TwoBlocks(input, 0) => Stripped(rtl_lines) = WrappedRegion(input, "8")
    /\ (Len(input) >= 1 /\ input[1] = "parameter WIDTH = 4;\n" /\ TwoBlocks(input, 1)) =>
         Stripped(rtl_lines) =
           <<strip(input[1])>> \o WrappedRegion(Tail(input), "WIDTH")

\* the sequence in reverse order
Reversed(s) == [k \in 1..Len(s) |-> s[Len(s) + 1 - k]]

EndcaseLines(indents) == [k \in 1..Len(indents) |-> indents[k] \o "endcase"]

\* the output described for lines k.. when `open` holds the indentations of
\* the cases that are open, the innermost last: every open case whose
\* indentation is at least that of a terminating line is closed before that
\* line, and the cases left open at the end are closed innermost first
RECURSIVE Completed(_, _, _)
Completed(lines, k, open) ==
  IF k > Len(lines) THEN EndcaseLines(Reversed(open))
  ELSE LET line == lines[k]
           reached(indent) == Len(Case_get_indent(line)) <= Len(indent)
           kept(indent) == ~reached(indent)
       IN  IF re_found(case_pattern, strip(line))
           THEN <<line>> \o Completed(lines, k + 1, Append(open, Case_get_indent(line)))
           ELSE IF _should_check_for_missing_endcase(strip(line))
           THEN EndcaseLines(Reversed(SelectSeq(open, reached))) \o <<line>>
                  \o Completed(lines, k + 1, SelectSeq(open, kept))
           ELSE <<line>> \o Completed(lines, k + 1, open)

\* C17 as stated: when no case of the input has an endcase,
\* fix_case_statements emits one endcase at the indentation of each open
\* case whose indentation is at least that of a block-terminating keyword
\* line, immediately before that line, and one endcase for every case still
\* open at the end of the input, after the last line, innermost case first.
MissingEndcaseCompleted ==
  (CaseOutput /\ \A k \in 1..Len(input) : ~is_endcase(strip(input[k]))) =>
    rtl_lines = Completed(input, 1, <<>>)

\* the number of open cases, counted from the innermost outwards, that come
\* before the first one whose indentation is less than that of the line
InnermostReached(open, line) ==
  LET reached(j) == Len(Case_get_indent(line)) <= Len(open[j])
  IN  CHOOSE n \in 0..Len(open) :
        /\ \A j \in (Len(open) - n + 1)..Len(open) : reached(j)
        /\ n = Len(open) \/ ~reached(Len(open) - n)

\* as Completed, but a terminating line closes the open cases from the
\* innermost outwards and stops at the first one it does not reach
RECURSIVE CompletedInnermostFirst(_, _, _)
CompletedInnermostFirst(lines, k, open) ==
  IF k > Len(lines) THEN EndcaseLines(Reversed(open))
  ELSE LET line == lines[k]
           n == InnermostReached(open, line)
       IN  IF re_found(case_pattern, strip(line))
           THEN <<line>> \o CompletedInnermostFirst(lines, k + 1,
                                                    Append(open, Case_get_indent(line)))
           ELSE IF _should_check_for_missing_endcase(strip(line))
           THEN EndcaseLines(Reversed(SubSeq(open, Len(open) - n + 1, Len(open))))
                  \o <<line>>
                  \o CompletedInnermostFirst(lines, k + 1, SubSeq(open, 1, Len(open) - n))
           ELSE <<line>> \o CompletedInnermostFirst(lines, k + 1, open)

\* C17: when no case of the input has an endcase, a block-terminating
\* keyword line closes the open cases from the innermost outwards, up to the
\* first open case whose indentation is less than that of the line: one
\* endcase at the case's indentation is emitted for each, immediately before
\* the line; every case still open at the end of the input gets one endcase
\* at its own indentation after the last line, innermost case first.
MissingEndcaseCompletedInnermostFirst ==
  (CaseOutput /\ \A k \in 1..Len(input) : ~is_endcase(strip(input[k]))) =>
    rtl_lines = CompletedInnermostFirst(input, 1, <<>>)

\* a nested case has been closed before a terminating line, and the outer
\* case at the end of the input
NestedCaseClosed ==
  /\ CaseOutput
  /\ input = <<"case (s)\n", "  case (t)\n", "    x = 1;\n", "  end\n">>
  /\ rtl_lines = <<"case (s)\n", "  case (t)\n", "    x = 1;\n", "  endcase", "  end\n",
                   "endcase">>

\* the path names no file that can be read
Unreadable(path) == path # NoPath /\ ~(Files[path].exists /\ Files[path].readable)

\* the lines fix_always_blocks returns for `lines`, header by header
PatchedHeaders(lines) ==
  [k \in 1..Len(lines) |->
     IF _is_incomplete_always_block(strip(lines[k]))
     THEN _fix_incomplete_always_block(lines[k], lines, k - 1)
     ELSE lines[k]]

\* C18: an AlwaysBlockPatcher constructed with a path that does not exist or
\* cannot be read has no source lines and an empty always-block table, and
\* its fix_always_blocks returns what a patcher constructed without a path
\* returns: whatever the path, the result is PatchedHeaders(input).
UnreadableSourceIgnored ==
  /\ Unreadable(self.always_patcher.source_file_path) =>
       /\ self.always_patcher.source_lines = <<>>
       /\ DOMAIN self.always_patcher.source_always_blocks = {}
  /\ AlwaysOutput => rtl_lines = PatchedHeaders(input)

\* a patcher whose reference file cannot be opened has repaired a header
LockedSourceHeaderFixed ==
  /\ AlwaysOutput
  /\ self.always_patcher.source_file_path = "locked.v"
  /\ input = <<"always\n", "  q <= d;\n">>
  /\ rtl_lines = <<"always @(posedge clk) begin\n", "  q <= d;\n">>

\* a plain statement line: no block keyword, no if, no else
Statement(line) ==
  /\ contains(line, ";")
  /\ ~is_begin(strip(line)) /\ ~is_end(strip(line))
  /\ ~_is_if_statement(strip(line))
  /\ ~_is_else_statement(strip(line)) /\ ~_is_else_if_statement(strip(line))

\* lines 1..n-1 are an if whose begin is on the if line, followed by one or
\* more statements; line n is the one that closes the block
IfWithBody(lines, n) ==
  /\ 3 <= n /\ n <= Len(lines)
  /\ _is_if_statement(strip(lines[1])) /\ endswith(strip(lines[1]), "begin")
  /\ Case_get_indent(lines[1]) = Case_get_indent(lines[n])
  /\ \A k \in 2..(n - 1) : Statement(lines[k])

\* already-correct input: the else stands on the line after the closing end,
\* or shares the line with it, and is followed by its statement
ElseContinuesIf(lines) ==
  \E n \in 3..Len(lines) :
    /\ IfWithBody(lines, n)
    /\ \/ /\ Len(lines) = n + 2
          /\ strip(lines[n]) = "end"
          /\ strip(lines[n + 1]) = "else"
          /\ Case_get_indent(lines[n + 1]) = Case_get_indent(lines[1])
          /\ Statement(lines[n + 2])
       \/ /\ Len(lines) = n + 1
          /\ strip(lines[n]) = "end else"
          /\ Statement(lines[n + 1])

\* C19: fix_if_else_statements returns unchanged an else that continues a
\* preceding if at the same indentation in already-correct input, when the
\* if body is a begin ... end block whose begin is on the if line and the
\* else stands after the closing end or shares its line.
PairedElseUnchanged ==
  (IfElseOutput /\ ElseContinuesIf(input)) => rtl_lines = input

\* the number of cases open after line k
RECURSIVE OpenAfter(_, _)
OpenAfter(lines, k) ==
  IF k = 0 THEN 0
  ELSE IF re_found(case_pattern, strip(lines[k])) THEN OpenAfter(lines, k - 1) + 1
  ELSE IF is_endcase(strip(lines[k])) THEN OpenAfter(lines, k - 1) - 1
  ELSE OpenAfter(lines, k - 1)

\* every case line has its own endcase and every endcase closes a case
EveryCaseClosed(lines) ==
  /\ \A k \in 1..Len(lines) : OpenAfter(lines, k) >= 0
  /\ OpenAfter(lines, Len(lines)) = 0

\* C20: fix_case_statements returns its input unchanged when every case line
\* of the input has its own matching endcase and no region is empty, whatever
\* the indentation of the lines inside the regions.
ClosedCasesUnchanged ==
  (CaseOutput /\ EveryCaseClosed(input) /\ EmptyRegions(input) = {}) =>
    rtl_lines = input

(***************************************************************************)
(* Classification of case regions, frames of the passes, line endings      *)
(***************************************************************************)
\* a label with nothing behind its colon, no assignment, no control keyword
BareLabel(line) ==
  /\ endswith(line, ":")
  /\ ~contains(line, "=")
  /\ \A keyword \in {"begin", "if", "for", "while"} : ~contains(line, keyword)

\* every interior line of the region is blank, a comment or a bare label
OnlyBareLabels(lines, case_struct) ==
  \A idx \in (case_struct.start + 1)..(case_struct.end - 1) :
    \E line \in {strip(At(lines, idx))} :
      line = "" \/ startswith(line, "//") \/ BareLabel(line)

\* the lines of the region stand in the list, contiguous and in order
RegionKept(lines, region) ==
  \E k \in 0..(Len(lines) - Len(region)) :
    SubSeq(lines, k + 1, k + Len(region)) = region

\* C21: fix_case_statements deletes a case-to-endcase region only if every
\* interior non-blank, non-comment line is a bare label with no assignment
\* and no control keyword; a region with an interior label line that carries
\* a statement, such as `default: y = 0;`, is kept.
OnlyBareRegionsDeleted ==
  [][(pc = "case_identify" /\ pc' = "case_fix") =>
       \A n \in 1..Len(case_structures) :
         ~OnlyBareLabels(rtl_lines, case_structures[n]) =>
           RegionKept(rtl_lines',
                      SubSeq(rtl_lines, case_structures[n].start + 1,
                             case_structures[n].end + 1))]_vars

\* the number of lines that the else on the first line governs: every line
\* through the matching end when the else opens a block, the single following
\* line otherwise
GovernedByFirst(lines) ==
  IF is_begin(strip(lines[1])) THEN FindMatchingEnd(lines, 1, 1)
  ELSE 1

\* the lines behind the else of the first line and the block it governs
BehindFirstBranch(lines) ==
  SubSeq(lines, GovernedByFirst(lines) + 2, Len(lines))

\* the input starts with a bare else (or else begin) that no if precedes,
\* followed by the block it governs; no further else line follows
StartsWithDanglingElse(lines) ==
  /\ Len(lines) >= 2
  /\ _is_else_statement(strip(lines[1]))
  /\ IF is_begin(strip(lines[1]))
     THEN is_end(strip(At(lines, FindMatchingEnd(lines, 1, 1))))
     ELSE Statement(lines[2])
  /\ ElseLines(BehindFirstBranch(lines)) = {}

\* C22: when fix_if_else_statements drops an unpaired bare else (or else
\* begin), it also drops the block that the else governs, the single
\* following statement or every line through the matching end, so no
\* statement and no end of the dropped branch remains in the output.
DanglingBranchDropped ==
  (IfElseOutput /\ StartsWithDanglingElse(input)) =>
    rtl_lines = BehindFirstBranch(input)

\* C23: repairing an assign statement keeps every two-character operator of
\* the statement (`<=`, `>=`, `!=`, `==`) as one contiguous token and turns
\* a stray `< =` into `<=`: no assign statement emitted by
\* fix_assign_statements contains `< =`, `> =` or `! =`.
OperatorsKeptWhole ==
  AssignOutput =>
    \A k \in 1..Len(rtl_lines) :
      startswith(strip(rtl_lines[k]), "assign ") =>
        \A split \in {"< =", "> =", "! ="} : ~contains(rtl_lines[k], split)

\* the line at index idx is handled as an orphan continuation line
OrphanLine(lines, idx) ==
  /\ idx < Len(lines)
  /\ ~_is_assign_start(strip(At(lines, idx)))
  /\ _is_orphan_ternary_part(strip(At(lines, idx)))

\* the line is an assignment without its terminator, or its last character
\* is an operator that waits for an operand
MergeTarget(prev_line) ==
  \/ startswith(strip(prev_line), "assign ") /\ ~endswith(strip(prev_line), ";")
  \/ AnyEndsWith(<<"?", ":", "&", "|", "^", "+", "-", "=">>, strip(prev_line))

\* C24: in fix_assign_statements an orphan continuation line is merged into
\* the immediately preceding output line only when that line is an
\* unterminated assignment or ends in a dangling operator; when the preceding
\* output line is neither, the orphan line is emitted unchanged as its own
\* line and the preceding line is unchanged.
OrphanMergedOnlyIntoOpenLine ==
  [][(pc = "assign" /\ OrphanLine(rtl_lines, i) /\ Len(fixed_lines) > 0
        /\ ~MergeTarget(fixed_lines[Len(fixed_lines)])) =>
       fixed_lines' = Append(fixed_lines, At(rtl_lines, i))]_vars

\* the labeled begin lines
LabeledBegins(lines) ==
  {k \in 1..Len(lines) : _is_orphan_generate_block(strip(lines[k]))}

\* the labeled block that starts on line k lies, through its closing end,
\* between a generate line and its endgenerate
BlockInsideGenerate(lines, k) ==
  \E c \in {ClosingEnd(lines, k + 1, 1)} :
    InsideGenerate(lines, k, IF c = 0 THEN k ELSE c)

\* C25: fix_generate_blocks leaves unchanged every `begin : <label>` block
\* that already lies between a generate line and its endgenerate: an input
\* all of whose labeled blocks lie in such a region is returned as it is, so
\* the pass adds no generate, genvar or for line to its own output.
WrappedBlocksUnchanged ==
  (/\ GenerateOutput
   /\ LabeledBegins(input) # {}
   /\ \A k \in LabeledBegins(input) : BlockInsideGenerate(input, k)) =>
    rtl_lines = input

\* the else / else-if lines that the pairing map gives an if
Paired == {e \in DOMAIN pairs : pairs[e].has_matching_if}

\* C26: in the pairing map built by _analyze_if_else_pairing, for every
\* input, each if / else-if line is the if_line of at most one entry, and
\* every entry with has_matching_if = true names an earlier line of the same
\* indentation whose block_end is strictly before the else line and at most
\* 5 lines before it.
PairingMapSound ==
  entry = "fix_if_else_statements" =>
    /\ \A d, e \in Paired : d # e => pairs[d].if_line # pairs[e].if_line
    /\ \A e \in Paired : Justifies(input, pairs[e].if_line, e)

\* the map is complete and holds an else that found its if and a later else
\* that the same if would justify, left without an if
SecondElseRefused ==
  /\ IfElseOutput
  /\ \E d \in Paired : \E e \in DOMAIN pairs \ Paired :
       d < e /\ Justifies(input, pairs[d].if_line, e)

\* C27: fix_always_blocks returns exactly as many lines as it receives, in
\* the same order, and every line whose trimmed text does not begin with the
\* keyword `always` (a body statement, a comment line, an `end` line with a
\* trailing comment) is returned unchanged.
OnlyHeadersRewritten ==
  AlwaysOutput =>
    /\ Len(rtl_lines) = Len(input)
    /\ \A k \in 1..Len(input) :
         ~startswith(strip(input[k]), "always") => rtl_lines[k] = input[k]

\* a blank line, a comment line, or a label: a line that ends in `:` and is
\* no assignment
OutsideAssign(line) ==
  \/ strip(line) = ""
  \/ startswith(strip(line), "//")
  \/ endswith(strip(line), ":") /\ ~contains(line, "=")

\* C28: fix_assign_statements emits unchanged and in their original order
\* the input lines that are not part of an assign statement: comment lines
\* and blank lines are never deleted, and lines that are not assignments
\* (such as a case label ending in `:`) are never rewritten.
NonAssignLinesKept ==
  AssignOutput =>
    SelectSeq(rtl_lines, OutsideAssign) = SelectSeq(input, OutsideAssign)

\* the number of lines with the token `begin` minus the number of lines with
\* the token `end`
Balance(lines) ==
  Cardinality({k \in 1..Len(lines) :
                 re_found(<<WordB, Lit("begin"), WordB>>, lines[k])})
    - Cardinality({k \in 1..Len(lines) :
                     re_found(<<WordB, Lit("end"), WordB>>, lines[k])})

\* C29: fix_always_blocks preserves block balance: the number of `begin`
\* tokens minus the number of `end` tokens in its output equals that of its
\* input, i.e. every `begin` it adds to a completed header is matched by an
\* `end`.
AlwaysBalanceKept == AlwaysOutput => Balance(rtl_lines) = Balance(input)

\* every line of the list ends with a newline
Terminated(lines) == \A k \in 1..Len(lines) : endswith(lines[k], "\n")

\* C30: if every input line ends with a newline, every line returned by
\* fix_all_syntax_errors ends with a newline, including the lines synthesized
\* or rewritten by the passes (`endcase`, folded or completed assignments,
\* `genvar` / `generate` lines), so that concatenating the output never joins
\* two lines.
LineEndingsKept == (PipelineOutput /\ Terminated(input)) => Terminated(rtl_lines)
====
